---- MODULE Spec2Model ----
(***************************************************************************)
(* LectureLens bot: the SQLite store of db.py (tables users, files and     *)
(* ratings and the functions over them) and the dialogue of main.py (the   *)
(* handlers and the conversations that route updates to them) as a state   *)
(* machine.                                                                *)
(*                                                                         *)
(* A Python str is a sequence of one-character strings, so that strip(),   *)
(* split() and lower() are computed as Python computes them.  A table is   *)
(* the set of its rows; a row is a record of its columns.  A float is the  *)
(* reduced fraction <<numerator, denominator>>.                            *)
(***************************************************************************)
EXTENDS Integers, Sequences, FiniteSets, TLC

VARIABLES
    users,            \* table users: rows [user_id, name]
    files,            \* table files: rows [file_id, user_id, file_path, tags, original_name]
    ratings,          \* table ratings: rows [file_id, user_id, rating]
    sqlite_sequence,  \* AUTOINCREMENT counter of table files
    last,             \* the last call: its function and its outcome (and, of a
                      \* rate_file, whether it found a row of the rater for the
                      \* file; of a search_files, the query)
    latestName,       \* history: user_id -> name argument of the latest successful add_user
    latestRating,     \* history: <<file_id, user_id>> -> rating argument of the latest successful rate_file
    returnedIds,      \* history: the file ids add_file returned, in order
    conversations,    \* conversation handler -> user -> the state of the user's conversation
    user_data,        \* user -> context.user_data of the user
    storage           \* the paths of the files in STORAGE_DIR

\* the state of the dialogue
dialogue == <<conversations, user_data, storage>>

vars == <<users, files, ratings, sqlite_sequence, last, latestName, latestRating, returnedIds,
          conversations, user_data, storage>>

(***************************************************************************)
(* Bounds of the model.                                                    *)
(***************************************************************************)
\* rows in the three tables together
MaxRows == 4

(***************************************************************************)
(* Python strings.                                                         *)
(***************************************************************************)
Whitespace == {" "}

UpperLetters ==
    <<"A", "B", "C", "D", "E", "F", "G", "H", "I", "J", "K", "L", "M",
      "N", "O", "P", "Q", "R", "S", "T", "U", "V", "W", "X", "Y", "Z">>
LowerLetters ==
    <<"a", "b", "c", "d", "e", "f", "g", "h", "i", "j", "k", "l", "m",
      "n", "o", "p", "q", "r", "s", "t", "u", "v", "w", "x", "y", "z">>

\* str.lower() of one character
LowerChar(c) ==
    IF \E i \in 1..Len(UpperLetters) : UpperLetters[i] = c
    THEN LowerLetters[CHOOSE i \in 1..Len(UpperLetters) : UpperLetters[i] = c]
    ELSE c

\* str.lower()
lower(s) == [i \in 1..Len(s) |-> LowerChar(s[i])]

RECURSIVE lstrip(_)
lstrip(s) == IF s = <<>> THEN s
             ELSE IF Head(s) \in Whitespace THEN lstrip(Tail(s)) ELSE s

RECURSIVE rstrip(_)
rstrip(s) == IF s = <<>> THEN s
             ELSE IF s[Len(s)] \in Whitespace THEN rstrip(SubSeq(s, 1, Len(s) - 1)) ELSE s

\* str.strip(): leading and trailing whitespace removed
strip(s) == rstrip(lstrip(s))

\* str.split(sep): the pieces between separators, empty pieces included
RECURSIVE split_on(_, _, _)
split_on(s, sep, cur) ==
    IF s = <<>> THEN <<cur>>
    ELSE IF Head(s) = sep THEN <<cur>> \o split_on(Tail(s), sep, <<>>)
    ELSE split_on(Tail(s), sep, Append(cur, Head(s)))

\* str.split(): the maximal runs of non-whitespace characters
RECURSIVE split_ws(_, _)
split_ws(s, cur) ==
    IF s = <<>> THEN (IF cur = <<>> THEN <<>> ELSE <<cur>>)
    ELSE IF Head(s) \in Whitespace
         THEN (IF cur = <<>> THEN <<>> ELSE <<cur>>) \o split_ws(Tail(s), <<>>)
         ELSE split_ws(Tail(s), Append(cur, Head(s)))

Range(seq) == {seq[i] : i \in 1..Len(seq)}

\* str.rfind(c): the last index of c in s, counted from 1, or 0
rfind(s, c) ==
    IF \E i \in 1..Len(s) : s[i] = c
    THEN CHOOSE i \in 1..Len(s) : s[i] = c /\ \A j \in (i + 1)..Len(s) : s[j] # c
    ELSE 0

\* os.path.splitext(p): <<root, ext>>; ext starts at the last dot of the
\* last path component, unless only dots stand before it in the component
splitext(p) ==
    LET sepIndex == rfind(p, "/")
        dotIndex == rfind(p, ".")
    IN  IF /\ dotIndex > sepIndex
           /\ \E k \in (sepIndex + 1)..(dotIndex - 1) : p[k] # "."
        THEN <<SubSeq(p, 1, dotIndex - 1), SubSeq(p, dotIndex, Len(p))>>
        ELSE <<p, << >> >>

DigitChars == <<"0", "1", "2", "3", "4", "5", "6", "7", "8", "9">>

IsDigit(c) == \E i \in 1..Len(DigitChars) : DigitChars[i] = c

DigitValue(c) == (CHOOSE i \in 1..Len(DigitChars) : DigitChars[i] = c) - 1

\* str(n) of an int n >= 0
RECURSIVE str_int(_)
str_int(n) ==
    IF n < 10 THEN <<DigitChars[n + 1]>>
    ELSE Append(str_int(n \div 10), DigitChars[(n % 10) + 1])

\* the value of a string of digits
RECURSIVE digits_value(_)
digits_value(s) ==
    IF s = << >> THEN 0
    ELSE 10 * digits_value(SubSeq(s, 1, Len(s) - 1)) + DigitValue(s[Len(s)])

\* int(s): << >> for ValueError, else <<the value>>.  Whitespace around the
\* number is ignored, one sign may lead it, and single underscores may
\* stand between its digits.
py_int(s) ==
    LET t      == strip(s)
        signed == t # << >> /\ t[1] \in {"+", "-"}
        body   == IF signed THEN Tail(t) ELSE t
        digits == SelectSeq(body, IsDigit)
        wellFormed ==
            /\ body # << >>
            /\ \A i \in 1..Len(body) : IsDigit(body[i]) \/ body[i] = "_"
            /\ IsDigit(body[1]) /\ IsDigit(body[Len(body)])
            /\ \A i \in 1..(Len(body) - 1) : ~(body[i] = "_" /\ body[i + 1] = "_")
    IN  IF ~wellFormed THEN << >>
        ELSE IF signed /\ t[1] = "-" THEN <<0 - digits_value(digits)>>
        ELSE <<digits_value(digits)>>

(***************************************************************************)
(* Outcomes of a call: an exception (with the message it carries) or a     *)
(* returned value.                                                         *)
(***************************************************************************)
Return(v) == [exc |-> "none", msg |-> "", ret |-> <<v>>]
Raise(e, m) == [exc |-> e, msg |-> m, ret |-> <<>>]
\* return None
ReturnNone == [exc |-> "none", msg |-> "", ret |-> <<>>]

\* the ValueError messages of db.py that report bad caller input
ValidationMessages ==
    {"user_id", "name", "file_path", "tags", "original_name", "file_id", "rating", "query"}
\* the ValueError messages of db.py that report a missing user or file
NotFoundMessages == {"user_not_found", "file_not_found"}

\* what sqlite3 does in a call: it works, connect() raises sqlite3.Error, or
\* execute() raises sqlite3.Error
DbOk == "ok"
DbConnectError == "connect_error"
DbExecuteError == "execute_error"

\* a function whose connect() raised: its except clause returns, and then
\* "if conn:" in its finally clause reads the unassigned local conn
ConnUnbound == Raise("UnboundLocalError", "conn")

(***************************************************************************)
(* Floats, as reduced fractions.                                           *)
(***************************************************************************)
RECURSIVE GCD(_, _)
GCD(a, b) == IF b = 0 THEN a ELSE GCD(b, a % b)

Float(n, d) == LET g == GCD(n, d) IN <<n \div g, d \div g>>

RECURSIVE SumRatings(_)
SumRatings(rows) ==
    IF rows = {} THEN 0
    ELSE LET r == CHOOSE x \in rows : TRUE IN r.rating + SumRatings(rows \ {r})

(***************************************************************************)
(* The dialogue: states of the conversations, menu labels, replies.        *)
(***************************************************************************)
\* the states of the ConversationHandlers
AWAITING_NAME == 0
AWAITING_FILE == 1
AWAITING_TAGS == 2
AWAITING_SEARCH_QUERY == 3
AWAITING_RATING_INPUT == 4
AWAITING_FILE_ID_FOR_DOWNLOAD == 5
\* ConversationHandler.END: the user has no conversation with the handler
END == -1

\* update.effective_user.id of the users who write to the bot
TelegramUsers == {1, 2}

\* the five ConversationHandlers of main()
ConversationNames ==
    {"set_name_conv", "upload_conv", "search_conv", "rate_conv", "download_conv"}

\* context.user_data without the keys of an upload; a key that is not set
\* is << >>, a key that is set is <<its value>>
NoUserData ==
    [uploading_file_path |-> << >>, uploading_original_name |-> << >>,
     uploader_user_id |-> << >>]

\* the menu labels; the icon of a label is one character, here an ASCII one,
\* and the Cyrillic letters are transliterated
LabelSetName == <<"!", " ", "U", "k", "a", "z", "a", "t", " ", "i", "m", "y", "a">>
LabelProfile == <<"@", " ", "M", "o", "y", " ", "p", "r", "o", "f", "i", "l">>
LabelUpload == <<"#", " ", "Z", "a", "g", "r", "u", "z", "i", "t", " ", "f", "a", "y", "l">>
LabelDownload == <<"$", " ", "S", "k", "a", "c", "h", "a", "t", " ", "f", "a", "y", "l">>
LabelSearch == <<"%", " ", "N", "a", "y", "t", "i", " ", "f", "a", "y", "l">>
LabelRate == <<"*", " ", "O", "t", "s", "e", "n", "i", "t", " ", "f", "a", "y", "l">>

MAIN_MENU_BUTTONS ==
    {LabelSetName, LabelProfile, LabelUpload, LabelDownload, LabelSearch, LabelRate}

\* os.getenv("STORAGE_DIR", "storage")
STORAGE_DIR == <<"s", "t", "o", "r", "a", "g", "e">>

(***************************************************************************)
(* The store after init_db: three empty tables; no conversation, no upload *)
(* data, no file in STORAGE_DIR.                                           *)
(***************************************************************************)
NoCall == [op |-> "init_db", out |-> Return(TRUE)]

Init ==
    /\ users = {}
    /\ files = {}
    /\ ratings = {}
    /\ sqlite_sequence = 0
    /\ last = NoCall
    /\ latestName = << >>
    /\ latestRating = << >>
    /\ returnedIds = << >>
    /\ conversations = [h \in ConversationNames |-> [u \in TelegramUsers |-> END]]
    /\ user_data = [u \in TelegramUsers |-> NoUserData]
    /\ storage = {}

TotalRows == Cardinality(users) + Cardinality(files) + Cardinality(ratings)

\* the rating column's CHECK (rating BETWEEN 1 AND 5)
MinRating == 1
MaxRating == 5

(***************************************************************************)
(* add_user                                                                *)
(***************************************************************************)
\* INSERT OR IGNORE in place of INSERT OR REPLACE: an existing row stays
InsertOrIgnoreUser(tbl, user_id, name) ==
    IF \E r \in tbl : r.user_id = user_id THEN tbl
    ELSE tbl \cup {[user_id |-> user_id, name |-> name]}

\* a plain INSERT into a table without the primary key: the old row stays
\* beside the new one
InsertUserBeside(tbl, user_id, name) ==
    tbl \cup {[user_id |-> user_id, name |-> name]}

\* INSERT OR REPLACE INTO users: the row with this primary key, if any, is
\* deleted and the new row inserted
InsertOrReplaceUser(tbl, user_id, name) ==
    {r \in tbl : r.user_id # user_id} \cup {[user_id |-> user_id, name |-> name]}

\* the outcome of add_user and the users table after it
add_user(tbl, user_id, name, db) ==
    IF user_id <= 0 THEN [out |-> Raise("ValueError", "user_id"), users |-> tbl]
    ELSE IF strip(name) = << >> THEN [out |-> Raise("ValueError", "name"), users |-> tbl]
    ELSE IF db = DbConnectError THEN [out |-> ConnUnbound, users |-> tbl]
    ELSE IF db = DbExecuteError THEN [out |-> Return(FALSE), users |-> tbl]
    ELSE [out |-> Return(TRUE), users |-> InsertOrReplaceUser(tbl, user_id, strip(name))]

AddUser(db, in) ==
    \E user_id \in in.user_ids, name \in in.names :
        LET r == add_user(users, user_id, name, db) IN
        /\ Cardinality(r.users) > Cardinality(users) => TotalRows < MaxRows
        /\ users' = r.users
        /\ last' = [op |-> "add_user", out |-> r.out]
        /\ latestName' = IF r.out = Return(TRUE)
                         THEN (user_id :> name) @@ latestName
                         ELSE latestName
        /\ UNCHANGED dialogue
        /\ UNCHANGED <<files, ratings, sqlite_sequence, latestRating, returnedIds>>

(***************************************************************************)
(* add_file                                                                *)
(***************************************************************************)
\* a rowid that does not advance
NextFileIdStuck(tbl, seq) == 1

\* the rowid an AUTOINCREMENT column gives the next row: one more than the
\* largest rowid the table ever held
NextFileId(tbl, seq) ==
    LET present == {r.file_id : r \in tbl} \cup {seq}
    IN  (CHOOSE m \in present : \A x \in present : x <= m) + 1

\* SELECT 1 FROM users WHERE user_id = ?
UserExists(tbl, user_id) == \E r \in tbl : r.user_id = user_id

\* add_file without the SELECT that looks the owner up
add_file_NoOwnerCheck(utbl, ftbl, seq, user_id, file_path, tags, original_name, db) ==
    LET same(o) == [out |-> o, files |-> ftbl, seq |-> seq] IN
    IF user_id <= 0 THEN same(Raise("ValueError", "user_id"))
    ELSE IF strip(file_path) = << >> THEN same(Raise("ValueError", "file_path"))
    ELSE IF strip(tags) = << >> THEN same(Raise("ValueError", "tags"))
    ELSE IF strip(original_name) = << >> THEN same(Raise("ValueError", "original_name"))
    ELSE IF db = DbConnectError THEN same(ConnUnbound)
    ELSE IF db = DbExecuteError THEN same(ReturnNone)
    ELSE LET id == NextFileId(ftbl, seq) IN
         [out   |-> Return(id),
          files |-> ftbl \cup {[file_id |-> id, user_id |-> user_id,
                                file_path |-> strip(file_path), tags |-> strip(tags),
                                original_name |-> strip(original_name)]},
          seq   |-> id]

\* add_file that puts the row in the place of the rows of the same path
add_file_ReplacesPath(utbl, ftbl, seq, user_id, file_path, tags, original_name, db) ==
    LET same(o) == [out |-> o, files |-> ftbl, seq |-> seq] IN
    IF user_id <= 0 THEN same(Raise("ValueError", "user_id"))
    ELSE IF strip(file_path) = << >> THEN same(Raise("ValueError", "file_path"))
    ELSE IF strip(tags) = << >> THEN same(Raise("ValueError", "tags"))
    ELSE IF strip(original_name) = << >> THEN same(Raise("ValueError", "original_name"))
    ELSE IF db = DbConnectError THEN same(ConnUnbound)
    ELSE IF db = DbExecuteError THEN same(ReturnNone)
    ELSE IF ~UserExists(utbl, user_id) THEN same(Raise("ValueError", "user_not_found"))
    ELSE LET id == NextFileId(ftbl, seq) IN
         [out   |-> Return(id),
          files |-> {x \in ftbl : x.file_path # strip(file_path)}
                    \cup {[file_id |-> id, user_id |-> user_id,
                           file_path |-> strip(file_path), tags |-> strip(tags),
                           original_name |-> strip(original_name)]},
          seq   |-> id]

\* the outcome of add_file, and the files table and its counter after it
add_file(utbl, ftbl, seq, user_id, file_path, tags, original_name, db) ==
    LET same(o) == [out |-> o, files |-> ftbl, seq |-> seq] IN
    IF user_id <= 0 THEN same(Raise("ValueError", "user_id"))
    ELSE IF strip(file_path) = << >> THEN same(Raise("ValueError", "file_path"))
    ELSE IF strip(tags) = << >> THEN same(Raise("ValueError", "tags"))
    ELSE IF strip(original_name) = << >> THEN same(Raise("ValueError", "original_name"))
    ELSE IF db = DbConnectError THEN same(ConnUnbound)
    ELSE IF db = DbExecuteError THEN same(ReturnNone)
    ELSE IF ~UserExists(utbl, user_id) THEN same(Raise("ValueError", "user_not_found"))
    ELSE LET id == NextFileId(ftbl, seq) IN
         [out   |-> Return(id),
          files |-> ftbl \cup {[file_id |-> id, user_id |-> user_id,
                                file_path |-> strip(file_path), tags |-> strip(tags),
                                original_name |-> strip(original_name)]},
          seq   |-> id]

AddFile(db, in) ==
    \E user_id \in in.user_ids, file_path \in in.paths, tags \in in.tags,
       original_name \in in.original_names :
        LET r == add_file(users, files, sqlite_sequence, user_id, file_path, tags,
                          original_name, db) IN
        /\ r.files # files => TotalRows < MaxRows
        /\ files' = r.files
        /\ sqlite_sequence' = r.seq
        /\ last' = [op |-> "add_file", out |-> r.out]
        /\ returnedIds' = IF r.out.exc = "none" /\ r.out.ret # << >>
                          THEN Append(returnedIds, r.out.ret[1])
                          ELSE returnedIds
        /\ UNCHANGED dialogue
        /\ UNCHANGED <<users, ratings, latestName, latestRating>>

(***************************************************************************)
(* rate_file and get_file_rating                                           *)
(***************************************************************************)
\* a lookup that finds a file as soon as the table has one
FileExistsAnyFile(tbl, file_id) == tbl # {}

\* SELECT 1 FROM files WHERE file_id = ?
FileExists(tbl, file_id) == \E r \in tbl : r.file_id = file_id

\* a plain INSERT into a table without the primary key: a second row
InsertRating(tbl, file_id, user_id, rating) ==
    tbl \cup {[file_id |-> file_id, user_id |-> user_id, rating |-> rating]}

\* INSERT INTO ratings ... ON CONFLICT(file_id, user_id) DO UPDATE SET rating
UpsertRating(tbl, file_id, user_id, rating) ==
    IF \E r \in tbl : r.file_id = file_id /\ r.user_id = user_id
    THEN {IF r.file_id = file_id /\ r.user_id = user_id
          THEN [r EXCEPT !.rating = rating] ELSE r : r \in tbl}
    ELSE tbl \cup {[file_id |-> file_id, user_id |-> user_id, rating |-> rating]}

\* rate_file with the range test 1 <= rating < 5
rate_file_ExclusiveUpper(ftbl, rtbl, file_id, user_id, rating, db) ==
    IF file_id <= 0 THEN [out |-> Raise("ValueError", "file_id"), ratings |-> rtbl]
    ELSE IF user_id <= 0 THEN [out |-> Raise("ValueError", "user_id"), ratings |-> rtbl]
    ELSE IF ~(MinRating <= rating /\ rating < MaxRating)
         THEN [out |-> Raise("ValueError", "rating"), ratings |-> rtbl]
    ELSE IF db = DbConnectError THEN [out |-> ConnUnbound, ratings |-> rtbl]
    ELSE IF db = DbExecuteError THEN [out |-> Return(FALSE), ratings |-> rtbl]
    ELSE IF ~FileExists(ftbl, file_id)
         THEN [out |-> Raise("ValueError", "file_not_found"), ratings |-> rtbl]
    ELSE [out |-> Return(TRUE), ratings |-> UpsertRating(rtbl, file_id, user_id, rating)]

\* rate_file without the SELECT that looks the file up
rate_file_NoFileCheck(ftbl, rtbl, file_id, user_id, rating, db) ==
    IF file_id <= 0 THEN [out |-> Raise("ValueError", "file_id"), ratings |-> rtbl]
    ELSE IF user_id <= 0 THEN [out |-> Raise("ValueError", "user_id"), ratings |-> rtbl]
    ELSE IF ~(MinRating <= rating /\ rating <= MaxRating)
         THEN [out |-> Raise("ValueError", "rating"), ratings |-> rtbl]
    ELSE IF db = DbConnectError THEN [out |-> ConnUnbound, ratings |-> rtbl]
    ELSE IF db = DbExecuteError THEN [out |-> Return(FALSE), ratings |-> rtbl]
    ELSE [out |-> Return(TRUE), ratings |-> UpsertRating(rtbl, file_id, user_id, rating)]

\* rate_file that writes the row before it looks the file up
rate_file_WriteFirst(ftbl, rtbl, file_id, user_id, rating, db) ==
    IF file_id <= 0 THEN [out |-> Raise("ValueError", "file_id"), ratings |-> rtbl]
    ELSE IF user_id <= 0 THEN [out |-> Raise("ValueError", "user_id"), ratings |-> rtbl]
    ELSE IF ~(MinRating <= rating /\ rating <= MaxRating)
         THEN [out |-> Raise("ValueError", "rating"), ratings |-> rtbl]
    ELSE IF db = DbConnectError THEN [out |-> ConnUnbound, ratings |-> rtbl]
    ELSE IF db = DbExecuteError THEN [out |-> Return(FALSE), ratings |-> rtbl]
    ELSE [out     |-> IF FileExists(ftbl, file_id) THEN Return(TRUE)
                      ELSE Raise("ValueError", "file_not_found"),
          ratings |-> UpsertRating(rtbl, file_id, user_id, rating)]

\* the outcome of rate_file and the ratings table after it
rate_file(ftbl, rtbl, file_id, user_id, rating, db) ==
    IF file_id <= 0 THEN [out |-> Raise("ValueError", "file_id"), ratings |-> rtbl]
    ELSE IF user_id <= 0 THEN [out |-> Raise("ValueError", "user_id"), ratings |-> rtbl]
    ELSE IF ~(MinRating <= rating /\ rating <= MaxRating)
         THEN [out |-> Raise("ValueError", "rating"), ratings |-> rtbl]
    ELSE IF db = DbConnectError THEN [out |-> ConnUnbound, ratings |-> rtbl]
    ELSE IF db = DbExecuteError THEN [out |-> Return(FALSE), ratings |-> rtbl]
    ELSE IF ~FileExists(ftbl, file_id)
         THEN [out |-> Raise("ValueError", "file_not_found"), ratings |-> rtbl]
    ELSE [out |-> Return(TRUE), ratings |-> UpsertRating(rtbl, file_id, user_id, rating)]

\* an invalid id, every id handed out so far, and one not handed out yet
FileIdInputs == 0..(sqlite_sequence + 1)

RateFile(db, in) ==
    \E file_id \in FileIdInputs, user_id \in in.rater_ids, rating \in in.ratings :
        LET r == rate_file(files, ratings, file_id, user_id, rating, db) IN
        /\ Cardinality(r.ratings) > Cardinality(ratings) => TotalRows < MaxRows
        /\ ratings' = r.ratings
        /\ last' = [op |-> "rate_file", out |-> r.out,
                    replaced |-> /\ r.out = Return(TRUE)
                                 /\ \E x \in ratings : x.file_id = file_id /\ x.user_id = user_id]
        /\ latestRating' = IF r.out = Return(TRUE)
                           THEN (<<file_id, user_id>> :> rating) @@ latestRating
                           ELSE latestRating
        /\ UNCHANGED dialogue
        /\ UNCHANGED <<users, files, sqlite_sequence, latestName, returnedIds>>

\* the average by integer division
AvgRatingFloor(rtbl, file_id) ==
    LET rows == {r \in rtbl : r.file_id = file_id} IN
    IF rows = {} THEN Float(0, 1) ELSE Float(SumRatings(rows) \div Cardinality(rows), 1)

\* SELECT AVG(rating) FROM ratings WHERE file_id = ?, as the float returned
\* (0.0 when AVG is NULL)
AvgRating(rtbl, file_id) ==
    LET rows == {r \in rtbl : r.file_id = file_id} IN
    IF rows = {} THEN Float(0, 1) ELSE Float(SumRatings(rows), Cardinality(rows))

get_file_rating(rtbl, file_id, db) ==
    IF file_id <= 0 THEN Raise("ValueError", "file_id")
    ELSE IF db = DbConnectError THEN ConnUnbound
    ELSE IF db = DbExecuteError THEN Return(Float(0, 1))
    ELSE Return(AvgRating(rtbl, file_id))

GetFileRating(db) ==
    \E file_id \in FileIdInputs :
        /\ last' = [op |-> "get_file_rating", out |-> get_file_rating(ratings, file_id, db)]
        /\ UNCHANGED dialogue
        /\ UNCHANGED <<users, files, ratings, sqlite_sequence, latestName, latestRating,
                       returnedIds>>

(***************************************************************************)
(* search_files                                                            *)
(***************************************************************************)
\* SELECT ... FROM files f JOIN users u ON f.user_id = u.user_id
JoinFilesUsers(ftbl, utbl) ==
    {[file_id |-> p[1].file_id, file_path |-> p[1].file_path, tags |-> p[1].tags,
      original_name |-> p[1].original_name, author_name |-> p[2].name] :
        p \in {q \in ftbl \X utbl : q[1].user_id = q[2].user_id}}

\* cursor.fetchall(): the rows, in rowid order of files
RECURSIVE fetchall(_)
fetchall(rows) ==
    IF rows = {} THEN << >>
    ELSE LET r == CHOOSE x \in rows : \A y \in rows : x.file_id <= y.file_id
         IN  <<r>> \o fetchall(rows \ {r})

\* set(word.lower() for word in query.strip().split())
query_words(query) == {lower(w) : w \in Range(split_ws(strip(query), << >>))}

\* the tag words without word.strip()
tag_words_NoStrip(tags) == {lower(w) : w \in Range(split_on(tags, ",", << >>))}

\* set(word.strip().lower() for word in tags.split(","))
tag_words(tags) == {lower(strip(w)) : w \in Range(split_on(tags, ",", << >>))}

\* the loop over rows: one result for each row whose tag words meet the query words
RECURSIVE search_results(_, _, _, _)
search_results(rows, rtbl, words, db) ==
    IF rows = << >> THEN << >>
    ELSE LET row == Head(rows)
             rest == search_results(Tail(rows), rtbl, words, db)
         IN  IF words \cap tag_words(row.tags) # {}
             THEN <<[file_id |-> row.file_id, file_path |-> row.file_path,
                     original_name |-> row.original_name, tags |-> row.tags,
                     author_name |-> row.author_name,
                     rating |-> get_file_rating(rtbl, row.file_id, db).ret[1]]>> \o rest
             ELSE rest

search_files(utbl, ftbl, rtbl, query, db) ==
    IF strip(query) = << >> THEN Raise("ValueError", "query")
    ELSE IF db = DbConnectError THEN ConnUnbound
    ELSE IF db = DbExecuteError THEN Return(<< >>)
    ELSE Return(search_results(fetchall(JoinFilesUsers(ftbl, utbl)), rtbl,
                               query_words(query), db))

SearchFiles(db, in) ==
    \E query \in in.queries :
        /\ last' = [op |-> "search_files", query |-> query,
                    out |-> search_files(users, files, ratings, query, db)]
        /\ UNCHANGED dialogue
        /\ UNCHANGED <<users, files, ratings, sqlite_sequence, latestName, latestRating,
                       returnedIds>>

(***************************************************************************)
(* get_file_path_by_id and get_user_files                                  *)
(***************************************************************************)
\* a Python value that is an int, a str or None
PyInt(n) == [int |-> n]
PyStr(s) == [str |-> s]
PyNone == [none |-> TRUE]

\* isinstance(v, int)
IsInt(v) == DOMAIN v = {"int"}

\* the outcome of get_file_path_by_id
get_file_path_by_id(ftbl, file_id, db) ==
    IF ~IsInt(file_id) THEN ReturnNone
    ELSE IF file_id.int <= 0 THEN ReturnNone
    ELSE IF db = DbConnectError THEN ConnUnbound
    ELSE IF db = DbExecuteError THEN ReturnNone
    ELSE LET rows == {r \in ftbl : r.file_id = file_id.int} IN
         IF rows = {} THEN ReturnNone
         ELSE Return((CHOOSE r \in rows : TRUE).file_path)

GetFilePathById(db, in) ==
    \E file_id \in {PyInt(i) : i \in FileIdInputs} \cup in.not_ints :
        /\ last' = [op |-> "get_file_path_by_id", file_id |-> file_id, db |-> db,
                    out |-> get_file_path_by_id(files, file_id, db)]
        /\ UNCHANGED dialogue
        /\ UNCHANGED <<users, files, ratings, sqlite_sequence, latestName, latestRating,
                       returnedIds>>

\* the loop over rows: one result for each row, with its rating
RECURSIVE user_file_results(_, _, _)
user_file_results(rows, rtbl, db) ==
    IF rows = << >> THEN << >>
    ELSE LET row == Head(rows) IN
         <<[file_id |-> row.file_id, original_name |-> row.original_name,
            tags |-> row.tags,
            rating |-> get_file_rating(rtbl, row.file_id, db).ret[1]]>>
         \o user_file_results(Tail(rows), rtbl, db)

\* get_user_files with the WHERE clause dropped: the files of every user
get_user_files_NoWhere(ftbl, rtbl, user_id, db) ==
    IF user_id <= 0 THEN Return(<< >>)
    ELSE IF db = DbConnectError THEN ConnUnbound
    ELSE IF db = DbExecuteError THEN Return(<< >>)
    ELSE Return(user_file_results(fetchall(ftbl), rtbl, db))

\* the outcome of get_user_files (SELECT ... FROM files WHERE user_id = ?)
get_user_files(ftbl, rtbl, user_id, db) ==
    IF user_id <= 0 THEN Return(<< >>)
    ELSE IF db = DbConnectError THEN ConnUnbound
    ELSE IF db = DbExecuteError THEN Return(<< >>)
    ELSE Return(user_file_results(fetchall({r \in ftbl : r.user_id = user_id}), rtbl, db))

GetUserFiles(db, in) ==
    \E user_id \in in.user_ids :
        /\ last' = [op |-> "get_user_files", user_id |-> user_id, db |-> db,
                    out |-> get_user_files(files, ratings, user_id, db)]
        /\ UNCHANGED dialogue
        /\ UNCHANGED <<users, files, ratings, sqlite_sequence, latestName, latestRating,
                       returnedIds>>

(***************************************************************************)
(* clean_filename                                                          *)
(***************************************************************************)
\* \w: a letter, a digit or the underscore
IsWordChar(c) ==
    \/ \E i \in 1..Len(UpperLetters) : UpperLetters[i] = c \/ LowerLetters[i] = c
    \/ IsDigit(c)
    \/ c = "_"

\* a character that re.sub(r"[^\w\s\.\-]", "", filename) keeps
IsFilenameChar(c) == IsWordChar(c) \/ c \in Whitespace \/ c \in {".", "-"}

\* re.sub(r"\s+", " ", s): every run of whitespace becomes one space
collapse_whitespace(s) ==
    LET first(i) == s[i] \notin Whitespace \/ i = 1 \/ s[i - 1] \notin Whitespace
        kept     == SelectSeq([i \in 1..Len(s) |-> i], first)
    IN  [k \in 1..Len(kept) |-> IF s[kept[k]] \in Whitespace THEN " " ELSE s[kept[k]]]

\* the longest name clean_filename leaves as it is, and the length to which
\* it cuts the root of a longer one
MaxFilenameLen == 100
KeptRootLen == 90

\* clean_filename that returns what is left, be it empty
clean_filename_NoPlaceholder(filename) ==
    LET kept == strip(collapse_whitespace(SelectSeq(filename, IsFilenameChar)))
    IN  IF Len(kept) > MaxFilenameLen
        THEN LET parts == splitext(kept)
                 root  == parts[1]
             IN  SubSeq(root, 1, IF Len(root) < KeptRootLen THEN Len(root)
                                 ELSE KeptRootLen) \o parts[2]
        ELSE kept

clean_filename(filename) ==
    LET kept    == strip(collapse_whitespace(SelectSeq(filename, IsFilenameChar)))
        cleaned == IF Len(kept) > MaxFilenameLen
                   THEN LET parts == splitext(kept)
                            root  == parts[1]
                        IN  SubSeq(root, 1, IF Len(root) < KeptRootLen THEN Len(root)
                                            ELSE KeptRootLen) \o parts[2]
                   ELSE kept
    IN  IF cleaned = << >> THEN <<"u", "n", "n", "a", "m", "e", "d", "_", "f", "i", "l", "e">> ELSE cleaned

(***************************************************************************)
(* The handlers of main.py.  A handler gets the world w it works on (the   *)
(* tables, the user_data of the user who wrote, and the storage) and the   *)
(* update upd: the user, the kind of message ("text", "command" or         *)
(* "document"), its text or file name, and what the environment does       *)
(* during the handler: io is the outcome of the file transfer, now the     *)
(* clock, db the condition of the database.  It yields the world after     *)
(* it, the state it returns (<< >> when it returns None or raises), the    *)
(* reply it sends last, the exception it lets escape and the path of the   *)
(* document it sends.                                                      *)
(***************************************************************************)
Replied(w, state, reply) ==
    [w |-> w, state |-> <<state>>, reply |-> reply, exc |-> "none", sent |-> << >>]

\* the handler raises e: nothing it returns reaches the conversation
Escapes(w, e) ==
    [w |-> w, state |-> << >>, reply |-> "", exc |-> e, sent |-> << >>]

start(w, upd) == Replied(w, END, "start: menu")

ask_for_name(w, upd) == Replied(w, AWAITING_NAME, "ask_for_name: prompt")

receive_name(w, upd) ==
    LET text == strip(upd.text) IN
    IF text \in MAIN_MENU_BUTTONS THEN Replied(w, AWAITING_NAME, "receive_name: finish first")
    ELSE IF text = << >> THEN Replied(w, AWAITING_NAME, "receive_name: empty")
    ELSE LET r == add_user(w.users, upd.user, text, upd.db) IN
         IF r.out.exc # "none" THEN Escapes(w, r.out.exc)
         ELSE IF r.out.ret[1]
              THEN Replied([w EXCEPT !.users = r.users], END, "receive_name: saved")
              ELSE Replied(w, END, "receive_name: not saved")

ask_for_file(w, upd) == Replied(w, AWAITING_FILE, "ask_for_file: prompt")

allowed_ext ==
    {<<".", "p", "d", "f">>, <<".", "d", "o", "c">>, <<".", "d", "o", "c", "x">>, <<".", "t", "x", "t">>, <<".", "p", "p", "t">>, <<".", "p", "p", "t", "x">>}

\* the outcomes of "file = await document.get_file();
\* await file.download_to_drive(file_path)": the file is written; the write
\* is refused; the write fails after the file was created; the transfer
\* fails
TransferOk == "ok"
TransferPermissionError == "PermissionError"
TransferOSError == "OSError"
TransferException == "Exception"

\* f"{update.effective_user.id}_{clean_name}_{timestamp}{ext}" in STORAGE_DIR
upload_path(user_id, clean_name, timestamp, ext) ==
    STORAGE_DIR \o <<"/">> \o str_int(user_id) \o <<"_">> \o clean_name \o <<"_">>
                \o str_int(timestamp) \o ext

\* receive_file that compares the extension as it is written
receive_file_CaseSensitive(w, upd) ==
    IF upd.kind # "document" THEN Replied(w, AWAITING_FILE, "receive_file: not a file")
    ELSE
    LET original_name == IF upd.file_name = << >> THEN <<"d", "o", "c", "u", "m", "e", "n", "t">>
                         ELSE upd.file_name
        ext           == splitext(original_name)[2]
        clean_name    == clean_filename(original_name)
        file_path     == upload_path(upd.user, clean_name, upd.now, ext)
    IN  IF ext \notin allowed_ext
        THEN Replied(w, AWAITING_FILE, "receive_file: format")
        ELSE IF upd.io = TransferPermissionError
             THEN Replied(w, AWAITING_FILE, "receive_file: not written")
        ELSE IF upd.io = TransferOSError
             THEN Replied([w EXCEPT !.storage = @ \cup {file_path}], AWAITING_FILE,
                          "receive_file: not written")
        ELSE IF upd.io = TransferException
             THEN Replied(w, AWAITING_FILE, "receive_file: unexpected")
        ELSE Replied([w EXCEPT !.storage = @ \cup {file_path},
                               !.data = [uploading_file_path     |-> <<file_path>>,
                                         uploading_original_name |-> <<clean_name>>,
                                         uploader_user_id        |-> <<upd.user>>]],
                     AWAITING_TAGS, "receive_file: enter tags")

\* receive_file that goes on to the tags after a transfer that failed
receive_file_IgnoresErrors(w, upd) ==
    IF upd.kind # "document" THEN Replied(w, AWAITING_FILE, "receive_file: not a file")
    ELSE
    LET original_name == IF upd.file_name = << >> THEN <<"d", "o", "c", "u", "m", "e", "n", "t">>
                         ELSE upd.file_name
        ext           == splitext(original_name)[2]
        clean_name    == clean_filename(original_name)
        file_path     == upload_path(upd.user, clean_name, upd.now, ext)
    IN  IF lower(ext) \notin allowed_ext
        THEN Replied(w, AWAITING_FILE, "receive_file: format")
        ELSE Replied([w EXCEPT !.storage = IF upd.io \in {TransferOk, TransferOSError}
                                           THEN @ \cup {file_path} ELSE @,
                               !.data = [uploading_file_path     |-> <<file_path>>,
                                         uploading_original_name |-> <<clean_name>>,
                                         uploader_user_id        |-> <<upd.user>>]],
                     AWAITING_TAGS, "receive_file: enter tags")

receive_file(w, upd) ==
    IF upd.kind # "document" THEN Replied(w, AWAITING_FILE, "receive_file: not a file")
    ELSE
    LET original_name == IF upd.file_name = << >> THEN <<"d", "o", "c", "u", "m", "e", "n", "t">>
                         ELSE upd.file_name
        ext           == splitext(original_name)[2]
        clean_name    == clean_filename(original_name)
        file_path     == upload_path(upd.user, clean_name, upd.now, ext)
    IN  IF lower(ext) \notin allowed_ext
        THEN Replied(w, AWAITING_FILE, "receive_file: format")
        ELSE IF upd.io = TransferPermissionError
             THEN Replied(w, AWAITING_FILE, "receive_file: not written")
        ELSE IF upd.io = TransferOSError
             THEN Replied([w EXCEPT !.storage = @ \cup {file_path}], AWAITING_FILE,
                          "receive_file: not written")
        ELSE IF upd.io = TransferException
             THEN Replied(w, AWAITING_FILE, "receive_file: unexpected")
        ELSE Replied([w EXCEPT !.storage = @ \cup {file_path},
                               !.data = [uploading_file_path     |-> <<file_path>>,
                                         uploading_original_name |-> <<clean_name>>,
                                         uploader_user_id        |-> <<upd.user>>]],
                     AWAITING_TAGS, "receive_file: enter tags")

\* "not x" of user_data.get(key) for a str x: the key is not set (None) or
\* the str is empty
FalsyStr(v) == v = << >> \/ v[1] = << >>

\* "not x" of user_data.get(key) for an int x: the key is not set or x is 0
FalsyInt(v) == v = << >> \/ v[1] = 0

\* receive_tags that leaves the upload data where it is
receive_tags_KeepsData(w, upd) ==
    LET tags          == strip(upd.text)
        file_path     == w.data.uploading_file_path
        original_name == w.data.uploading_original_name
        user_id       == w.data.uploader_user_id
    IN  IF tags \in MAIN_MENU_BUTTONS THEN Replied(w, AWAITING_TAGS, "receive_tags: not a button")
        ELSE IF tags = << >> THEN Replied(w, AWAITING_TAGS, "receive_tags: empty")
        ELSE IF FalsyStr(file_path) \/ FalsyStr(original_name) \/ FalsyInt(user_id)
             THEN Replied(w, END, "receive_tags: data lost")
        ELSE LET r == add_file(w.users, w.files, w.seq, user_id[1], file_path[1], tags,
                               original_name[1], upd.db)
             IN  IF r.out.exc # "none" THEN Escapes(w, r.out.exc)
                 ELSE IF r.out.ret # << >>
                      THEN Replied([w EXCEPT !.files = r.files, !.seq = r.seq],
                                   END, "receive_tags: saved")
                      ELSE Replied(w, END, "receive_tags: not saved")

\* receive_tags that hands the name of the document to add_file as its path
receive_tags_NameAsPath(w, upd) ==
    LET tags          == strip(upd.text)
        file_path     == w.data.uploading_file_path
        original_name == w.data.uploading_original_name
        user_id       == w.data.uploader_user_id
    IN  IF tags \in MAIN_MENU_BUTTONS THEN Replied(w, AWAITING_TAGS, "receive_tags: not a button")
        ELSE IF tags = << >> THEN Replied(w, AWAITING_TAGS, "receive_tags: empty")
        ELSE IF FalsyStr(file_path) \/ FalsyStr(original_name) \/ FalsyInt(user_id)
             THEN Replied(w, END, "receive_tags: data lost")
        ELSE LET r == add_file(w.users, w.files, w.seq, user_id[1], original_name[1], tags,
                               original_name[1], upd.db)
             IN  IF r.out.exc # "none" THEN Escapes(w, r.out.exc)
                 ELSE IF r.out.ret # << >>
                      THEN Replied([w EXCEPT !.files = r.files, !.seq = r.seq,
                                             !.data = NoUserData],
                                   END, "receive_tags: saved")
                      ELSE Replied([w EXCEPT !.data = NoUserData], END,
                                   "receive_tags: not saved")

receive_tags(w, upd) ==
    LET tags          == strip(upd.text)
        file_path     == w.data.uploading_file_path
        original_name == w.data.uploading_original_name
        user_id       == w.data.uploader_user_id
    IN  IF tags \in MAIN_MENU_BUTTONS THEN Replied(w, AWAITING_TAGS, "receive_tags: not a button")
        ELSE IF tags = << >> THEN Replied(w, AWAITING_TAGS, "receive_tags: empty")
        ELSE IF FalsyStr(file_path) \/ FalsyStr(original_name) \/ FalsyInt(user_id)
             THEN Replied(w, END, "receive_tags: data lost")
        ELSE LET r == add_file(w.users, w.files, w.seq, user_id[1], file_path[1], tags,
                               original_name[1], upd.db)
             IN  IF r.out.exc # "none" THEN Escapes(w, r.out.exc)
                 ELSE IF r.out.ret # << >>
                      THEN Replied([w EXCEPT !.files = r.files, !.seq = r.seq,
                                             !.data = NoUserData],
                                   END, "receive_tags: saved")
                      ELSE Replied([w EXCEPT !.data = NoUserData], END,
                                   "receive_tags: not saved")

ask_for_search(w, upd) == Replied(w, AWAITING_SEARCH_QUERY, "ask_for_search: prompt")

receive_search_query(w, upd) ==
    LET query == strip(upd.text) IN
    IF query \in MAIN_MENU_BUTTONS
    THEN Replied(w, AWAITING_SEARCH_QUERY, "receive_search_query: not a button")
    ELSE IF query = << >>
         THEN Replied(w, AWAITING_SEARCH_QUERY, "receive_search_query: empty")
    ELSE LET r == search_files(w.users, w.files, w.ratings, query, upd.db) IN
         IF r.exc # "none" THEN Escapes(w, r.exc)
         ELSE IF r.ret[1] = << >> THEN Replied(w, END, "receive_search_query: nothing found")
         ELSE Replied(w, END, "receive_search_query: found")

ask_for_rating(w, upd) == Replied(w, AWAITING_RATING_INPUT, "ask_for_rating: prompt")

receive_rating_input(w, upd) ==
    LET text == strip(upd.text) IN
    IF text \in MAIN_MENU_BUTTONS
    THEN Replied(w, AWAITING_RATING_INPUT, "receive_rating_input: not a button")
    ELSE
    LET parts   == split_ws(text, << >>)
        \* except (ValueError, IndexError)
        invalid == Replied(w, END, "receive_rating_input: format")
    IN  IF Len(parts) # 2 THEN invalid
        ELSE
        LET file_id == py_int(parts[1])
            rating  == py_int(parts[2])
        IN  IF file_id = << >> \/ rating = << >> THEN invalid
            ELSE IF ~(1 <= rating[1] /\ rating[1] <= 5) THEN invalid
            ELSE LET r == rate_file(w.files, w.ratings, file_id[1], upd.user, rating[1],
                                    upd.db)
                 IN  IF r.out.exc = "ValueError" THEN invalid
                     ELSE IF r.out.exc # "none" THEN Escapes(w, r.out.exc)
                     ELSE IF r.out.ret[1]
                          THEN Replied([w EXCEPT !.ratings = r.ratings], END,
                                       "receive_rating_input: saved")
                          ELSE Replied(w, END, "receive_rating_input: not saved")

ask_for_download(w, upd) ==
    Replied(w, AWAITING_FILE_ID_FOR_DOWNLOAD, "ask_for_download: prompt")

receive_file_id_for_download(w, upd) ==
    LET text == strip(upd.text) IN
    IF text \in MAIN_MENU_BUTTONS
    THEN Replied(w, AWAITING_FILE_ID_FOR_DOWNLOAD, "receive_file_id_for_download: enter id")
    ELSE
    LET file_id == py_int(text)
        \* except (ValueError, TypeError)
        invalid == Replied(w, END, "receive_file_id_for_download: invalid id")
    IN  IF file_id = << >> THEN invalid
        ELSE IF file_id[1] <= 0 THEN invalid
        ELSE LET r == get_file_path_by_id(w.files, PyInt(file_id[1]), upd.db) IN
             IF r.exc # "none" THEN Escapes(w, r.exc)
             \* not file_path or not os.path.isfile(file_path)
             ELSE IF r.ret = << >> \/ r.ret[1] = << >> \/ r.ret[1] \notin w.storage
                  THEN Replied(w, END, "receive_file_id_for_download: not found")
             \* open(file_path, "rb") and reply_document
             ELSE IF upd.io # TransferOk THEN Escapes(w, upd.io)
             ELSE [Replied(w, END, "receive_file_id_for_download: sent")
                       EXCEPT !.sent = <<r.ret[1]>>]

\* SELECT name FROM users WHERE user_id = ?: the names found
NameLookup(tbl, user_id) == {r.name : r \in {x \in tbl : x.user_id = user_id}}

\* show_profile returns None
show_profile(w, upd) ==
    LET user_row == IF upd.db = DbOk THEN NameLookup(w.users, upd.user) ELSE {}
        answer(reply) == [w |-> w, state |-> << >>, reply |-> reply, exc |-> "none",
                          sent |-> << >>]
    IN  IF user_row = {} THEN answer("show_profile: set name first")
        ELSE LET r == get_user_files(w.files, w.ratings, upd.user, upd.db) IN
             IF r.exc # "none" THEN Escapes(w, r.exc)
             ELSE IF r.ret[1] = << >> THEN answer("show_profile: no files")
             ELSE answer("show_profile: files")

(***************************************************************************)
(* The handlers registered by main(), all in one group: an update goes to  *)
(* the first handler of the group, in the order of add_handler, whose      *)
(* check_update accepts it, and to no other.                               *)
(***************************************************************************)
\* CommandHandler("start", start)
CommandStart(upd) == upd.kind = "command" /\ upd.text = <<"/", "s", "t", "a", "r", "t">>

\* filters.TEXT & ~filters.COMMAND
TextFilter(upd) == upd.kind = "text" /\ upd.text # << >>

\* filters.Document.ALL
DocumentFilter(upd) == upd.kind = "document"

\* filters.Regex("^<label>$")
RegexFilter(label, upd) == upd.kind = "text" /\ upd.text = label

set_name_conv ==
    [entry_label |-> LabelSetName, entry |-> "ask_for_name",
     states |-> {[state |-> AWAITING_NAME, filter |-> "TEXT", callback |-> "receive_name"]}]

upload_conv ==
    [entry_label |-> LabelUpload, entry |-> "ask_for_file",
     states |-> {[state |-> AWAITING_FILE, filter |-> "DOCUMENT", callback |-> "receive_file"],
                 [state |-> AWAITING_TAGS, filter |-> "TEXT", callback |-> "receive_tags"]}]

search_conv ==
    [entry_label |-> LabelSearch, entry |-> "ask_for_search",
     states |-> {[state |-> AWAITING_SEARCH_QUERY, filter |-> "TEXT",
                  callback |-> "receive_search_query"]}]

rate_conv ==
    [entry_label |-> LabelRate, entry |-> "ask_for_rating",
     states |-> {[state |-> AWAITING_RATING_INPUT, filter |-> "TEXT",
                  callback |-> "receive_rating_input"]}]

download_conv ==
    [entry_label |-> LabelDownload, entry |-> "ask_for_download",
     states |-> {[state |-> AWAITING_FILE_ID_FOR_DOWNLOAD, filter |-> "TEXT",
                  callback |-> "receive_file_id_for_download"]}]

Conversation(name) ==
    CASE name = "set_name_conv" -> set_name_conv
      [] name = "upload_conv"   -> upload_conv
      [] name = "search_conv"   -> search_conv
      [] name = "rate_conv"     -> rate_conv
      [] name = "download_conv" -> download_conv

\* ConversationHandler.check_update: <<the callback>> that takes the update,
\* or << >>.  A user without a conversation is offered the entry point; a
\* user in a state is offered the handler of the state and then the
\* fallback.
check_conversation(conv, state, upd) ==
    IF state = END
    THEN IF RegexFilter(conv.entry_label, upd) THEN <<conv.entry>> ELSE << >>
    ELSE LET accepting == {h \in conv.states :
                              /\ h.state = state
                              /\ \/ h.filter = "TEXT" /\ TextFilter(upd)
                                 \/ h.filter = "DOCUMENT" /\ DocumentFilter(upd)}
         IN  IF accepting # {} THEN <<(CHOOSE h \in accepting : TRUE).callback>>
             ELSE IF CommandStart(upd) THEN <<"start">>
             ELSE << >>

\* application.add_handler(...), in the order of main()
HandlerOrder ==
    <<"start", "set_name_conv", "upload_conv", "search_conv", "rate_conv", "download_conv",
      "show_profile">>

check_update(name, convs, upd) ==
    IF name = "start" THEN (IF CommandStart(upd) THEN <<"start">> ELSE << >>)
    ELSE IF name = "show_profile"
         THEN (IF RegexFilter(LabelProfile, upd) THEN <<"show_profile">> ELSE << >>)
    ELSE check_conversation(Conversation(name), convs[name][upd.user], upd)

\* the handler that handles the update and the callback it runs, "none" when
\* no handler accepts the update
selected(convs, upd) ==
    LET accepting == {i \in 1..Len(HandlerOrder) :
                         check_update(HandlerOrder[i], convs, upd) # << >>}
    IN  IF accepting = {} THEN [handler |-> "none", callback |-> "none"]
        ELSE LET i == CHOOSE k \in accepting : \A j \in accepting : k <= j IN
             [handler  |-> HandlerOrder[i],
              callback |-> check_update(HandlerOrder[i], convs, upd)[1]]

call(callback, w, upd) ==
    CASE callback = "start"                        -> start(w, upd)
      [] callback = "ask_for_name"                 -> ask_for_name(w, upd)
      [] callback = "receive_name"                 -> receive_name(w, upd)
      [] callback = "ask_for_file"                 -> ask_for_file(w, upd)
      [] callback = "receive_file"                 -> receive_file(w, upd)
      [] callback = "receive_tags"                 -> receive_tags(w, upd)
      [] callback = "ask_for_search"               -> ask_for_search(w, upd)
      [] callback = "receive_search_query"         -> receive_search_query(w, upd)
      [] callback = "ask_for_rating"               -> ask_for_rating(w, upd)
      [] callback = "receive_rating_input"         -> receive_rating_input(w, upd)
      [] callback = "ask_for_download"             -> ask_for_download(w, upd)
      [] callback = "receive_file_id_for_download" -> receive_file_id_for_download(w, upd)
      [] callback = "show_profile"                 -> show_profile(w, upd)
      [] callback = "none"                         -> Escapes(w, "none")

\* the world a callback works on when it handles upd in the state st
world(st, upd) ==
    [users |-> st.users, files |-> st.files, ratings |-> st.ratings, seq |-> st.seq,
     data |-> st.user_data[upd.user], storage |-> st.storage]

\* one user_data for all users: what a callback leaves is the data of each
handled_SharedUserData(st, upd, sel, out) ==
    [handler  |-> sel.handler,
     callback |-> sel.callback,
     out      |-> out,
     st       |-> [users     |-> out.w.users,
                   files     |-> out.w.files,
                   ratings   |-> out.w.ratings,
                   seq       |-> out.w.seq,
                   storage   |-> out.w.storage,
                   user_data |-> [u \in DOMAIN st.user_data |-> out.w.data],
                   conversations |->
                       IF sel.handler \in ConversationNames /\ out.state # << >>
                       THEN [st.conversations EXCEPT ![sel.handler][upd.user] = out.state[1]]
                       ELSE st.conversations]]

\* the state of the bot after the callback selected (sel) has run on upd
\* with the outcome out.  A conversation takes the state its callback
\* returns; it keeps its state when the callback returns None or raises.
handled(st, upd, sel, out) ==
    [handler  |-> sel.handler,
     callback |-> sel.callback,
     out      |-> out,
     st       |-> [users     |-> out.w.users,
                   files     |-> out.w.files,
                   ratings   |-> out.w.ratings,
                   seq       |-> out.w.seq,
                   storage   |-> out.w.storage,
                   user_data |-> [st.user_data EXCEPT ![upd.user] = out.w.data],
                   conversations |->
                       IF sel.handler \in ConversationNames /\ out.state # << >>
                       THEN [st.conversations EXCEPT ![sel.handler][upd.user] = out.state[1]]
                       ELSE st.conversations]]

run_selected(st, upd, sel) == handled(st, upd, sel, call(sel.callback, world(st, upd), upd))

\* Application.process_update on the state st of the bot: the handler and
\* callback selected, the outcome of the callback and the state after it
process_update(st, upd) == run_selected(st, upd, selected(st.conversations, upd))

\* the state of the bot
BotState ==
    [users |-> users, files |-> files, ratings |-> ratings, seq |-> sqlite_sequence,
     storage |-> storage, user_data |-> user_data, conversations |-> conversations]

\* the updates made of the inputs in
Updates(in) ==
    [user : in.users, kind : {"text"}, text : in.texts, file_name : {<< >>},
     io : in.sends, now : in.clock, db : {DbOk}]
    \cup
    [user : in.users, kind : {"command"}, text : in.commands, file_name : {<< >>},
     io : {TransferOk}, now : in.clock, db : {DbOk}]
    \cup
    [user : in.users, kind : {"document"}, text : {<< >>}, file_name : in.file_names,
     io : in.transfers, now : in.clock, db : {DbOk}]

\* the update upd is handled, by the callback
Handle(callback, upd) ==
    /\ selected(conversations, upd).callback = callback
    /\ \E r \in {process_update(BotState, upd)} :
        /\ (Cardinality(r.st.users) + Cardinality(r.st.files)
               + Cardinality(r.st.ratings) > TotalRows) => TotalRows < MaxRows
        /\ users' = r.st.users
        /\ files' = r.st.files
        /\ ratings' = r.st.ratings
        /\ sqlite_sequence' = r.st.seq
        /\ storage' = r.st.storage
        /\ user_data' = r.st.user_data
        /\ conversations' = r.st.conversations
        /\ last' = [op |-> callback, handler |-> r.handler, user |-> upd.user,
                    out |-> [exc |-> r.out.exc, reply |-> r.out.reply,
                             sent |-> r.out.sent]]
        /\ UNCHANGED <<latestName, latestRating, returnedIds>>

\* One action for each callback.  The first conjunct of an action names the
\* kind of update that can reach the callback at all; whether this update
\* does reach it is decided by the handlers (selected).
Start(updates) ==
    \E upd \in updates : upd.kind = "command" /\ Handle("start", upd)

AskForName(updates) ==
    \E upd \in updates : upd.text = LabelSetName /\ Handle("ask_for_name", upd)

ReceiveName(updates) ==
    \E upd \in updates : upd.kind = "text" /\ Handle("receive_name", upd)

AskForFile(updates) ==
    \E upd \in updates : upd.text = LabelUpload /\ Handle("ask_for_file", upd)

ReceiveFile(updates) ==
    \E upd \in updates : upd.kind = "document" /\ Handle("receive_file", upd)

ReceiveTags(updates) ==
    \E upd \in updates : upd.kind = "text" /\ Handle("receive_tags", upd)

AskForSearch(updates) ==
    \E upd \in updates : upd.text = LabelSearch /\ Handle("ask_for_search", upd)

ReceiveSearchQuery(updates) ==
    \E upd \in updates : upd.kind = "text" /\ Handle("receive_search_query", upd)

AskForRating(updates) ==
    \E upd \in updates : upd.text = LabelRate /\ Handle("ask_for_rating", upd)

ReceiveRatingInput(updates) ==
    \E upd \in updates : upd.kind = "text" /\ Handle("receive_rating_input", upd)

AskForDownload(updates) ==
    \E upd \in updates : upd.text = LabelDownload /\ Handle("ask_for_download", upd)

ReceiveFileIdForDownload(updates) ==
    \E upd \in updates : upd.kind = "text" /\ Handle("receive_file_id_for_download", upd)

ShowProfile(updates) ==
    \E upd \in updates : upd.text = LabelProfile /\ Handle("show_profile", upd)

\* no handler accepts the update
NotHandled(updates) ==
    \E upd \in updates : upd.kind \in {"text", "document"} /\ Handle("none", upd)

\* clean_filename(filename) is called
CleanFilename(filenames) ==
    \E filename \in filenames :
        /\ last' = [op |-> "clean_filename", filename |-> filename,
                    ret |-> clean_filename(filename)]
        /\ UNCHANGED dialogue
        /\ UNCHANGED <<users, files, ratings, sqlite_sequence, latestName, latestRating,
                       returnedIds>>

(***************************************************************************)
(* Arguments offered to the functions.  Ids are 0 (not valid) and up.      *)
(*                                                                         *)
(* StoreInputs offers every rating and blank and padded text fields;       *)
(* SearchInputs offers the tag strings and queries that tell the ways of   *)
(* splitting and matching apart.                                           *)
(***************************************************************************)
StoreInputs ==
    [user_ids       |-> {0, 1, 2},
     rater_ids      |-> {0, 1, 2},
     \* " ", "a", " b "
     names          |-> { <<" ">>, <<"a">>, <<" ", "b", " ">> },
     \* " ", "p"
     paths          |-> { <<" ">>, <<"p">> },
     \* "", "n"
     original_names |-> { << >>, <<"n">> },
     \* " ", "a"
     tags           |-> { <<" ">>, <<"a">> },
     ratings        |-> (MinRating - 1)..(MaxRating + 1),
     \* " ", "a"
     queries        |-> { <<" ">>, <<"a">> }]

SearchInputs ==
    [user_ids       |-> {1, 2},
     rater_ids      |-> {1},
     \* "a", "b"
     names          |-> { <<"a">>, <<"b">> },
     paths          |-> { <<"p">> },
     original_names |-> { <<"n">> },
     \* "a", "A,, b", "a b", "ab"
     tags           |-> { <<"a">>, <<"A", ",", ",", " ", "b">>, <<"a", " ", "b">>, <<"a", "b">> },
     ratings        |-> {MaxRating - 1},
     \* " ", "a", "B", " b a", "a, b", "ab"
     queries        |-> { <<" ">>, <<"a">>, <<"B">>, <<" ", "b", " ", "a">>,
                          <<"a", ",", " ", "b">>, <<"a", "b">> }]

Next ==
    \/ AddUser(DbOk, StoreInputs)
    \/ AddFile(DbOk, StoreInputs)
    \/ RateFile(DbOk, StoreInputs)
    \/ GetFileRating(DbOk)
    \/ SearchFiles(DbOk, StoreInputs)

Spec == Init /\ [][Next]_vars

NextSearch ==
    \/ AddUser(DbOk, SearchInputs)
    \/ AddFile(DbOk, SearchInputs)
    \/ RateFile(DbOk, SearchInputs)
    \/ GetFileRating(DbOk)
    \/ SearchFiles(DbOk, SearchInputs)

SpecSearch == Init /\ [][NextSearch]_vars

(***************************************************************************)
(* The store with a database that may fail: every call finds sqlite3       *)
(* working, unable to open the database file, or failing in execute().     *)
(***************************************************************************)
DbConditions == {DbOk, DbConnectError, DbExecuteError}

FaultInputs ==
    [user_ids       |-> {0, 1, 2},
     rater_ids      |-> {1},
     names          |-> { <<"a">> },
     \* "p", "q"
     paths          |-> { <<"p">>, <<"q">> },
     original_names |-> { <<"n">> },
     tags           |-> { <<"a">> },
     ratings        |-> {MinRating + 1, MaxRating},
     queries        |-> { <<"a">> },
     \* "1", None
     not_ints       |-> {PyStr(<<"1">>), PyNone}]

NextFaults ==
    \/ \E db \in DbConditions : AddUser(db, FaultInputs)
    \/ \E db \in DbConditions : AddFile(db, FaultInputs)
    \/ \E db \in DbConditions : RateFile(db, FaultInputs)
    \/ \E db \in DbConditions : GetFileRating(db)
    \/ \E db \in DbConditions : SearchFiles(db, FaultInputs)
    \/ \E db \in DbConditions : GetFilePathById(db, FaultInputs)
    \/ \E db \in DbConditions : GetUserFiles(db, FaultInputs)

SpecFaults == Init /\ [][NextFaults]_vars

(***************************************************************************)
(* The dialogue: users send menu labels, texts, /start and documents.      *)
(***************************************************************************)
\* one user presses every label, answers every form and sends documents
FirstUserInputs ==
    [users      |-> {1},
     \* the six labels, " ", "1 5", "1"
     texts      |-> MAIN_MENU_BUTTONS \cup { <<" ">>, <<"1", " ", "5">>, <<"1">> },
     commands   |-> { <<"/", "s", "t", "a", "r", "t">> },
     \* "a.PDF", "a.exe", no name
     file_names |-> { <<"a", ".", "P", "D", "F">>, <<"a", ".", "e", "x", "e">>, << >> },
     transfers  |-> {TransferOk, TransferPermissionError, TransferOSError, TransferException},
     sends      |-> {TransferOk, TransferOSError},
     clock      |-> {7}]

DialogueUpdates == Updates(FirstUserInputs)

NextDialogue ==
    \/ Start(DialogueUpdates)
    \/ AskForName(DialogueUpdates)
    \/ ReceiveName(DialogueUpdates)
    \/ AskForFile(DialogueUpdates)
    \/ ReceiveFile(DialogueUpdates)
    \/ ReceiveTags(DialogueUpdates)
    \/ AskForSearch(DialogueUpdates)
    \/ ReceiveSearchQuery(DialogueUpdates)
    \/ AskForRating(DialogueUpdates)
    \/ ReceiveRatingInput(DialogueUpdates)
    \/ AskForDownload(DialogueUpdates)
    \/ ReceiveFileIdForDownload(DialogueUpdates)
    \/ ShowProfile(DialogueUpdates)
    \/ NotHandled(DialogueUpdates)

SpecDialogue == Init /\ [][NextDialogue]_vars

(***************************************************************************)
(* clean_filename on names of documents: every short name over a small     *)
(* alphabet, and long names, a stem of one letter with an extension.       *)
(***************************************************************************)
\* the length of the short names
MaxShortName == 3

\* a letter, a character that is removed, whitespace, the dot, the underscore
NameAlphabet == {"a", "?", " ", ".", "_"}

ShortNames == UNION {[1..n -> NameAlphabet] : n \in 0..MaxShortName}

Repeat(c, n) == [i \in 1..n |-> c]

\* the lengths of the stems, about KeptRootLen and MaxFilenameLen
StemLengths ==
    {KeptRootLen - 1, KeptRootLen, KeptRootLen + 1, MaxFilenameLen - 4, MaxFilenameLen - 3,
     MaxFilenameLen, MaxFilenameLen + 1}

\* "", ".pdf", ".p?df", " .pdf", "  x", ".bbbbbbbbb" (10 characters),
\* ".bbbbbbbbbb" (11 characters)
Extensions ==
    { << >>,
      <<".", "p", "d", "f">>,
      <<".", "p", "?", "d", "f">>,
      <<" ", ".", "p", "d", "f">>,
      <<" ", " ", "x">>,
      <<".">> \o Repeat("b", 9),
      <<".">> \o Repeat("b", 10) }

LongNames ==
    {Repeat("a", n) \o ext : n \in StemLengths, ext \in Extensions}
    \cup {<<".">> \o Repeat("a", MaxFilenameLen + 20),
          Repeat("?", MaxFilenameLen + 1),
          Repeat(" ", MaxFilenameLen + 1) \o <<"a">>}

\* "lecture?.pdf"
LectureName == <<"l", "e", "c", "t", "u", "r", "e", "?", ".", "p", "d", "f">>

FilenameInputs == ShortNames \cup LongNames \cup {LectureName}

NextFilename == CleanFilename(FilenameInputs)

SpecFilename == Init /\ [][NextFilename]_vars

(***************************************************************************)
(* The store called directly and through the dialogue of one user: names   *)
(* are set, documents uploaded and files rated both ways.                  *)
(***************************************************************************)
RecordStoreInputs ==
    [user_ids       |-> {1},
     rater_ids      |-> {1},
     \* "a", "b"
     names          |-> { <<"a">>, <<"b">> },
     paths          |-> { <<"p">> },
     original_names |-> { <<"n">> },
     tags           |-> { <<"a">> },
     ratings        |-> {MinRating + 2},
     queries        |-> { <<"a">> }]

RecordDialogueInputs ==
    [users      |-> {1},
     \* three labels, "1 5", "b"
     texts      |-> {LabelSetName, LabelUpload, LabelRate, <<"1", " ", "5">>, <<"b">>},
     commands   |-> {},
     \* "a.PDF"
     file_names |-> { <<"a", ".", "P", "D", "F">> },
     transfers  |-> {TransferOk},
     sends      |-> {TransferOk},
     clock      |-> {7}]

RecordUpdates == Updates(RecordDialogueInputs)

NextRecords ==
    \/ AddUser(DbOk, RecordStoreInputs)
    \/ AddFile(DbOk, RecordStoreInputs)
    \/ RateFile(DbOk, RecordStoreInputs)
    \/ AskForName(RecordUpdates)
    \/ ReceiveName(RecordUpdates)
    \/ AskForFile(RecordUpdates)
    \/ ReceiveFile(RecordUpdates)
    \/ ReceiveTags(RecordUpdates)
    \/ AskForRating(RecordUpdates)
    \/ ReceiveRatingInput(RecordUpdates)

SpecRecords == Init /\ [][NextRecords]_vars

(***************************************************************************)
(* Two users in the dialogue at once: each sets a name and uploads a       *)
(* document of its own; their updates come in any order.                   *)
(***************************************************************************)
\* the document user u sends: "a.PDF" for user 1, "b?.txt" for user 2
DocumentOf(u) ==
    IF u = 1 THEN <<"a", ".", "P", "D", "F">> ELSE <<"b", "?", ".", "t", "x", "t">>

TwoUserInputs(u) ==
    [users      |-> {u},
     \* two labels, "1"
     texts      |-> {LabelSetName, LabelUpload, <<"1">>},
     commands   |-> {},
     file_names |-> {DocumentOf(u)},
     transfers  |-> {TransferOk, TransferPermissionError},
     sends      |-> {TransferOk},
     clock      |-> {7}]

TwoUserUpdates == UNION {Updates(TwoUserInputs(u)) : u \in TelegramUsers}

NextTwoUsers ==
    \/ AskForName(TwoUserUpdates)
    \/ ReceiveName(TwoUserUpdates)
    \/ AskForFile(TwoUserUpdates)
    \/ ReceiveFile(TwoUserUpdates)
    \/ ReceiveTags(TwoUserUpdates)
    \/ NotHandled(TwoUserUpdates)

SpecTwoUsers == Init /\ [][NextTwoUsers]_vars

(***************************************************************************)
(* Properties of the store functions (specification Spec).                 *)
(***************************************************************************)
\* a string with no character other than whitespace
IsBlank(s) == \A i \in 1..Len(s) : s[i] \in Whitespace

\* C1 as stated: after any sequence of add_user calls, the name lookup for an
\* id returns the name passed to the most recent successful call for that id.
C1_LookupReturnsNamePassed ==
    \A id \in DOMAIN latestName : NameLookup(users, id) = {latestName[id]}

\* C1 amended: the lookup returns the name of the most recent successful call
\* with its leading and trailing whitespace removed; there is exactly one row
\* for each id added and none for any other id; repeating the most recent
\* call with the same (id, name) leaves the users table as it is.
C1_LookupReturnsStrippedName ==
    /\ \A id \in DOMAIN latestName :
          /\ ~IsBlank(latestName[id])
          /\ Cardinality({r \in users : r.user_id = id}) = 1
          /\ \A r \in users : r.user_id = id =>
                /\ r.name # << >>
                /\ r.name[1] \notin Whitespace
                /\ r.name[Len(r.name)] \notin Whitespace
                /\ \E i \in 1..Len(latestName[id]) :
                      /\ SubSeq(latestName[id], i, i + Len(r.name) - 1) = r.name
                      /\ IsBlank(SubSeq(latestName[id], 1, i - 1))
                      /\ IsBlank(SubSeq(latestName[id], i + Len(r.name), Len(latestName[id])))
          /\ add_user(users, id, latestName[id], DbOk).out = Return(TRUE)
          /\ add_user(users, id, latestName[id], DbOk).users = users
    /\ \A r \in users : r.user_id \in DOMAIN latestName

\* a padded name was stored over an earlier name of the same user
C1_Witness ==
    /\ last = [op |-> "add_user", out |-> Return(TRUE)]
    /\ 1 \in DOMAIN latestName
    /\ latestName[1] = <<" ", "b", " ">>
    /\ files # {}

\* C2: add_file with a positive owner id that has no users row and non-blank
\* path, tags and name raises the ValueError "user not found", which differs
\* from every ValueError raised for a blank or invalid field, and leaves the
\* files table and its counter as they were; a blank or invalid field raises
\* one of the validation ValueErrors.
C2_UnknownOwnerNotFound ==
    \A user_id \in StoreInputs.user_ids, file_path \in StoreInputs.paths,
       tags \in StoreInputs.tags, original_name \in StoreInputs.original_names :
        LET r == add_file(users, files, sqlite_sequence, user_id, file_path, tags,
                          original_name, DbOk)
            valid == /\ user_id > 0
                     /\ ~IsBlank(file_path) /\ ~IsBlank(tags) /\ ~IsBlank(original_name)
        IN  /\ (valid /\ user_id \notin {u.user_id : u \in users}) =>
                  /\ r.out.exc = "ValueError"
                  /\ r.out.msg \in NotFoundMessages
                  /\ r.out.msg \notin ValidationMessages
                  /\ r.files = files
                  /\ r.seq = sqlite_sequence
            /\ ~valid =>
                  /\ r.out.exc = "ValueError"
                  /\ r.out.msg \in ValidationMessages
                  /\ r.out.msg \notin NotFoundMessages
                  /\ r.files = files

\* add_file was called for an owner without a row while another user has one
C2_Witness ==
    /\ last = [op |-> "add_file", out |-> Raise("ValueError", "user_not_found")]
    /\ users # {}

\* C3: the file ids add_file returned are positive and strictly increasing in
\* the order returned, they are exactly the ids of the file rows, and no two
\* file rows share an id.
C3_FileIdsIncrease ==
    /\ \A i \in 1..Len(returnedIds) : returnedIds[i] > 0
    /\ \A i, j \in 1..Len(returnedIds) : i < j => returnedIds[i] < returnedIds[j]
    /\ {f.file_id : f \in files} = Range(returnedIds)
    /\ \A f, g \in files : f.file_id = g.file_id => f = g
    /\ Cardinality(files) = Len(returnedIds)

\* add_file has returned a third id
C3_Witness ==
    /\ last.op = "add_file"
    /\ last.out.exc = "none"
    /\ Len(returnedIds) = 3

\* the sum of the latest ratings of the given <<file_id, user_id>> keys
RECURSIVE SumLatest(_)
SumLatest(keys) ==
    IF keys = {} THEN 0
    ELSE LET k == CHOOSE x \in keys : TRUE IN latestRating[k] + SumLatest(keys \ {k})

\* C4: get_file_rating of a positive file id returns the mean of the latest
\* score of each distinct rater of that file, and exactly 0.0 when nobody
\* rated it; latest scores 2 and 4 give 3.0, and 5 and 4 give 4.5.
C4_AverageIsMeanOfLatest ==
    \A f \in FileIdInputs \ {0} :
        LET raters == {k \in DOMAIN latestRating : k[1] = f}
            got    == get_file_rating(ratings, f, DbOk)
        IN  /\ got.exc = "none"
            /\ raters = {} => got.ret[1] = <<0, 1>>
            /\ raters # {} =>
                  /\ got.ret[1][2] > 0
                  /\ got.ret[1][1] * Cardinality(raters) = got.ret[1][2] * SumLatest(raters)
            /\ (\E a, b \in raters : a # b /\ raters = {a, b}
                     /\ latestRating[a] = 2 /\ latestRating[b] = 4) => got.ret[1] = <<3, 1>>
            /\ (\E a, b \in raters : a # b /\ raters = {a, b}
                     /\ latestRating[a] = 5 /\ latestRating[b] = 4) => got.ret[1] = <<9, 2>>

\* the latest scores of file 1 are 5 and 4, and the rating read back is 4.5
C4_Witness ==
    /\ last = [op |-> "get_file_rating", out |-> Return(<<9, 2>>)]
    /\ {k \in DOMAIN latestRating : k[1] = 1} = {<<1, 1>>, <<1, 2>>}
    /\ latestRating[<<1, 1>>] = 5
    /\ latestRating[<<1, 2>>] = 4

\* C5: the ratings table holds at most one row for a (file_id, user_id) pair:
\* its rows are exactly one row for each pair rated successfully, holding the
\* latest score given, so that rating again replaces the score and adds no row.
C5_OneRowPerRater ==
    /\ \A r, q \in ratings : (r.file_id = q.file_id /\ r.user_id = q.user_id) => r = q
    /\ ratings = {[file_id |-> k[1], user_id |-> k[2], rating |-> latestRating[k]] :
                     k \in DOMAIN latestRating}
    /\ Cardinality(ratings) = Cardinality(DOMAIN latestRating)

\* a rater has just rated a file a second time
C5_Witness ==
    /\ last = [op |-> "rate_file", out |-> Return(TRUE), replaced |-> TRUE]
    /\ Cardinality(ratings) = 2

\* C6: rate_file with a score below 1 or above 5 raises a validation
\* ValueError and writes nothing, for every file id and rater id, whether the
\* file exists or not; with score 1 or 5, positive ids and an existing file it
\* returns True.
C6_ScoreRange ==
    \A file_id \in FileIdInputs, user_id \in StoreInputs.rater_ids,
       rating \in StoreInputs.ratings :
        LET r == rate_file(files, ratings, file_id, user_id, rating, DbOk) IN
        /\ (rating < 1 \/ rating > 5) =>
              /\ r.out.exc = "ValueError"
              /\ r.out.msg \in ValidationMessages
              /\ r.ratings = ratings
        /\ (rating \in {1, 5} /\ file_id > 0 /\ user_id > 0
                /\ file_id \in {f.file_id : f \in files}) =>
              r.out = Return(TRUE)

\* a score out of range was refused for a file that exists
C6_Witness ==
    /\ last = [op |-> "rate_file", out |-> Raise("ValueError", "rating"), replaced |-> FALSE]
    /\ files # {}

\* C7: rate_file with positive ids and a score in 1..5 raises the ValueError
\* "file not found", which is none of the validation ValueErrors, and writes
\* no row when no file has the id; when the file exists it returns True and
\* the ratings table then holds exactly one row for the pair, with the score,
\* and every other row as before.
C7_UnknownFileNotFound ==
    \A file_id \in FileIdInputs, user_id \in StoreInputs.rater_ids,
       rating \in StoreInputs.ratings :
        LET r == rate_file(files, ratings, file_id, user_id, rating, DbOk)
            mine(x) == x.file_id = file_id /\ x.user_id = user_id
        IN  (file_id > 0 /\ user_id > 0 /\ rating \in 1..5) =>
              /\ file_id \notin {f.file_id : f \in files} =>
                    /\ r.out.exc = "ValueError"
                    /\ r.out.msg \in NotFoundMessages
                    /\ r.out.msg \notin ValidationMessages
                    /\ r.ratings = ratings
              /\ file_id \in {f.file_id : f \in files} =>
                    /\ r.out = Return(TRUE)
                    /\ {x \in r.ratings : mine(x)} =
                          {[file_id |-> file_id, user_id |-> user_id, rating |-> rating]}
                    /\ {x \in r.ratings : ~mine(x)} = {x \in ratings : ~mine(x)}

\* a valid rating of a file id that was never handed out was refused, while
\* another file exists
C7_Witness ==
    /\ last = [op |-> "rate_file", out |-> Raise("ValueError", "file_not_found"),
               replaced |-> FALSE]
    /\ files # {}
    /\ ratings = {}

(***************************************************************************)
(* Properties of search_files (specification SpecSearch).                  *)
(***************************************************************************)
\* the words of s: the maximal runs of characters that are not in seps
WordsBetween(s, seps) ==
    {SubSeq(s, w[1], w[2]) :
        w \in {v \in (1..Len(s)) \X (1..Len(s)) :
                  /\ v[1] <= v[2]
                  /\ \A k \in v[1]..v[2] : s[k] \notin seps
                  /\ (v[1] = 1 \/ s[v[1] - 1] \in seps)
                  /\ (v[2] = Len(s) \/ s[v[2] + 1] \in seps)}}

\* the comma-separated words of a tag string: what stands between two commas
\* (or an end of the string), without the whitespace around it
CommaSeparatedWords(s) ==
    {SubSeq(s, w[1], w[2]) :
        w \in {v \in (1..Len(s)) \X (1..Len(s)) :
                  /\ v[1] <= v[2]
                  /\ \A k \in v[1]..v[2] : s[k] # ","
                  /\ s[v[1]] \notin Whitespace
                  /\ s[v[2]] \notin Whitespace
                  /\ \E a \in 1..v[1] :
                        /\ a = 1 \/ s[a - 1] = ","
                        /\ \A k \in a..(v[1] - 1) : s[k] \in Whitespace
                  /\ \E b \in v[2]..Len(s) :
                        /\ b = Len(s) \/ s[b + 1] = ","
                        /\ \A k \in (v[2] + 1)..b : s[k] \in Whitespace}}

\* two words are equal when case is ignored
SameWord(v, w) == Len(v) = Len(w) /\ \A i \in 1..Len(v) : LowerChar(v[i]) = LowerChar(w[i])

\* the file ids of a list of search results
ResultIds(res) == {res[i].file_id : i \in 1..Len(res)}

\* C8: for every non-blank query, search_files returns exactly the files of
\* which some comma-separated tag word equals, case ignored, some
\* whitespace-separated word of the query, each of them once.
C8_SearchIsWordIntersection ==
    \A query \in SearchInputs.queries :
        ~IsBlank(query) =>
            LET got == search_files(users, files, ratings, query, DbOk)
                matches(f) == \E qw \in WordsBetween(query, Whitespace),
                                 tw \in CommaSeparatedWords(f.tags) : SameWord(qw, tw)
            IN  /\ got.exc = "none"
                /\ ResultIds(got.ret[1]) = {f.file_id : f \in {x \in files : matches(x)}}
                /\ \A i, j \in 1..Len(got.ret[1]) :
                      got.ret[1][i].file_id = got.ret[1][j].file_id => i = j

\* a search returned one of two files
C8_Witness ==
    /\ last.op = "search_files"
    /\ last.out.exc = "none"
    /\ Len(last.out.ret[1]) = 1
    /\ Cardinality(files) = 2

\* C9 as stated: a file is returned exactly when some word of the query
\* equals, case ignored, some word of its tag string, the words of both being
\* delimited by commas or spaces.
Delimiters == Whitespace \cup {","}

C9_WordsDelimitedByCommasOrSpaces ==
    (last.op = "search_files" /\ ~IsBlank(last.query)) =>
        LET matches(f) == \E qw \in WordsBetween(last.query, Delimiters),
                             tw \in WordsBetween(f.tags, Delimiters) : SameWord(qw, tw)
        IN  /\ last.out.exc = "none"
            /\ ResultIds(last.out.ret[1]) = {f.file_id : f \in {x \in files : matches(x)}}

\* C10 as stated: in a store made by one add_user(u, n), one add_file by u
\* with tags T and one rate_file of that file with score s, a search for any
\* one comma-separated tag word of T returns exactly one result, whose author
\* is n and whose rating is s.
C10_EndToEnd ==
    (/\ Cardinality(users) = 1
     /\ Cardinality(files) = 1
     /\ Cardinality(DOMAIN latestRating) = 1) =>
        \A f \in files, k \in DOMAIN latestRating : \A w \in CommaSeparatedWords(f.tags) :
            LET got == search_files(users, files, ratings, w, DbOk) IN
            /\ got.exc = "none"
            /\ Len(got.ret[1]) = 1
            /\ got.ret[1][1].file_id = f.file_id
            /\ got.ret[1][1].author_name = latestName[f.user_id]
            /\ got.ret[1][1].rating = <<latestRating[k], 1>>
(***************************************************************************)
(* Properties of the lookups (specification SpecFaults) and of failed      *)
(* calls (specification Spec).                                             *)
(***************************************************************************)
\* C11 as stated: get_file_path_by_id raises for no id and no condition of
\* the database: it returns the stored path when the id is the id of a file
\* row and the database works, and None when the id is not an int, not
\* positive or not the id of a row, and when the database cannot be opened
\* or queried.
C11_NeverRaises ==
    last.op = "get_file_path_by_id" =>
        /\ last.out.exc = "none"
        /\ IF /\ last.db = DbOk
              /\ IsInt(last.file_id)
              /\ \E f \in files : f.file_id = last.file_id.int
           THEN \E f \in files : /\ f.file_id = last.file_id.int
                                 /\ last.out = Return(f.file_path)
           ELSE last.out = ReturnNone

\* C12: with the database working, get_user_files returns, for every user
\* id, one record for each file row whose owner is that id and no other
\* record, each with the name and tags of the row and the mean of the latest
\* scores of the file's raters (0.0 without raters); for an id that is not
\* positive, has no users row or owns no file it returns the empty list.
C12_FilesOfOwner ==
    \A user_id \in FaultInputs.user_ids \cup {3} :
        LET got   == get_user_files(files, ratings, user_id, DbOk)
            owned == {f \in files : f.user_id = user_id}
        IN  /\ got.exc = "none"
            /\ Len(got.ret[1]) = Cardinality(owned)
            /\ {got.ret[1][i].file_id : i \in 1..Len(got.ret[1])} = {f.file_id : f \in owned}
            /\ \A i \in 1..Len(got.ret[1]) : \A f \in owned :
                  f.file_id = got.ret[1][i].file_id =>
                      LET raters == {k \in DOMAIN latestRating : k[1] = f.file_id}
                          avg    == got.ret[1][i].rating
                      IN  /\ got.ret[1][i].original_name = f.original_name
                          /\ got.ret[1][i].tags = f.tags
                          /\ raters = {} => avg = <<0, 1>>
                          /\ raters # {} =>
                                /\ avg[2] > 0
                                /\ avg[1] * Cardinality(raters) = avg[2] * SumLatest(raters)
            /\ (user_id <= 0 \/ user_id \notin {u.user_id : u \in users} \/ owned = {}) =>
                  got = Return(<< >>)

\* the files of one of two owners were listed
C12_Witness ==
    /\ last.op = "get_user_files"
    /\ last.db = DbOk
    /\ last.out.exc = "none"
    /\ Len(last.out.ret[1]) = 1
    /\ Cardinality({f.user_id : f \in files}) = 2

\* C13: a step in which add_user, add_file, rate_file, search_files or
\* get_file_rating ends in a ValueError (of a check of its arguments, or of
\* a user or file not found) leaves the users, files and ratings tables and
\* the counter of file ids as they were.
C13_FailedCallsWriteNothing ==
    [][(/\ last'.op \in {"add_user", "add_file", "rate_file", "search_files",
                         "get_file_rating"}
        /\ last'.out.exc = "ValueError"
        /\ last'.out.msg \in ValidationMessages \cup NotFoundMessages)
       => UNCHANGED <<users, files, ratings, sqlite_sequence>>]_vars

\* a rating of a file that does not exist was refused in a store that holds
\* ratings
C13_Witness ==
    /\ last.op = "rate_file"
    /\ last.out = Raise("ValueError", "file_not_found")
    /\ ratings # {}
(***************************************************************************)
(* Properties of the dialogue (specification SpecDialogue).                *)
(***************************************************************************)
\* a text message, and a document, of user u
TextUpdate(u, text) ==
    [user |-> u, kind |-> "text", text |-> text, file_name |-> << >>, io |-> TransferOk,
     now |-> 7, db |-> DbOk]

DocumentUpdate(u, file_name, io) ==
    [user |-> u, kind |-> "document", text |-> << >>, file_name |-> file_name, io |-> io,
     now |-> 7, db |-> DbOk]

\* the users who write in SpecDialogue
Senders == FirstUserInputs.users

\* the forms of user u that are on a step
ActiveForms(convs, u) == {h \in ConversationNames : convs[h][u] # END}

\* the reply with which the step of a form asks again after a menu label
LabelRePrompt(state) ==
    CASE state = AWAITING_NAME                 -> "receive_name: finish first"
      [] state = AWAITING_FILE                 -> "receive_file: not a file"
      [] state = AWAITING_TAGS                 -> "receive_tags: not a button"
      [] state = AWAITING_SEARCH_QUERY         -> "receive_search_query: not a button"
      [] state = AWAITING_RATING_INPUT         -> "receive_rating_input: not a button"
      [] state = AWAITING_FILE_ID_FOR_DOWNLOAD -> "receive_file_id_for_download: enter id"

\* C14 as stated: while a form of a user is on a step, a text of that user
\* that is one of the six menu labels leaves the form on its step, is
\* answered with the re-prompt of that form, changes no table and starts no
\* other form.
C14_LabelKeepsStep ==
    \A u \in Senders : \A h \in ActiveForms(conversations, u) :
        \A label \in MAIN_MENU_BUTTONS :
            \A r \in {process_update(BotState, TextUpdate(u, label))} :
                /\ r.st.conversations = conversations
                /\ r.out.reply = LabelRePrompt(conversations[h][u])
                /\ r.st.users = users /\ r.st.files = files /\ r.st.ratings = ratings

\* the steps that take a text
TextSteps ==
    {AWAITING_NAME, AWAITING_TAGS, AWAITING_SEARCH_QUERY, AWAITING_RATING_INPUT,
     AWAITING_FILE_ID_FOR_DOWNLOAD}

\* the reply with which the step of a form asks again after a blank text
\* (the rate and download forms have one re-prompt only)
BlankRePrompt(state) ==
    CASE state = AWAITING_NAME                 -> "receive_name: empty"
      [] state = AWAITING_TAGS                 -> "receive_tags: empty"
      [] state = AWAITING_SEARCH_QUERY         -> "receive_search_query: empty"
      [] state = AWAITING_RATING_INPUT         -> "receive_rating_input: not a button"
      [] state = AWAITING_FILE_ID_FOR_DOWNLOAD -> "receive_file_id_for_download: enter id"

\* C15 as stated: while a form of a user is on a step that takes a text, a
\* blank text of that user leaves the form on its step, is answered with the
\* re-prompt of that form, and neither changes a table nor ends the form.
C15_BlankKeepsStep ==
    \A u \in Senders : \A h \in ActiveForms(conversations, u) :
        conversations[h][u] \in TextSteps =>
            \A r \in {process_update(BotState, TextUpdate(u, <<" ">>))} :
                /\ r.st.conversations[h][u] = conversations[h][u]
                /\ r.out.reply = BlankRePrompt(conversations[h][u])
                /\ r.st.users = users /\ r.st.files = files /\ r.st.ratings = ratings

\* C16 as stated: after /start of a user, whatever the steps the user's forms
\* were on, no form of the user is on a step.
C16_StartEndsForms ==
    last.op = "start" => ActiveForms(conversations, last.user) = {}

\* the replies that tell the user that the step failed
FailureReplies ==
    {"receive_name: not saved", "receive_tags: not saved", "receive_tags: data lost",
     "receive_search_query: nothing found", "receive_rating_input: format",
     "receive_rating_input: not saved", "receive_file_id_for_download: invalid id",
     "receive_file_id_for_download: not found"}

\* C17 as stated: when the call of the store made by the last step of a form
\* ends in a ValueError (of an argument, or of a user or file not found),
\* the user gets a failure message and the form ends.  The calls that can
\* end so are the add_file of the tags step (the uploader has no users row)
\* and the rate_file of the rate step (no file has the id).
C17_StoreFailureEndsForm ==
    \A u \in Senders :
        /\ (/\ conversations["upload_conv"][u] = AWAITING_TAGS
            /\ ~UserExists(users, u)) =>
               \A r \in {process_update(BotState, TextUpdate(u, <<"1">>))} :
                   /\ r.out.exc = "none"
                   /\ r.out.reply \in FailureReplies
                   /\ r.st.conversations["upload_conv"][u] = END
                   /\ ActiveForms(r.st.conversations, u) = {}
        /\ (/\ conversations["rate_conv"][u] = AWAITING_RATING_INPUT
            /\ ~FileExists(files, 1)) =>
               \A r \in {process_update(BotState, TextUpdate(u, <<"1", " ", "5">>))} :
                   /\ r.out.exc = "none"
                   /\ r.out.reply \in FailureReplies
                   /\ r.st.conversations["rate_conv"][u] = END
                   /\ ActiveForms(r.st.conversations, u) = {}

\* the file names and the failures of the transfer tried on every state
DocumentNames ==
    { <<"a", ".", "P", "D", "F">>,
      <<"a", ".", "p", "d", "f">>,
      <<"b", ".", "D", "o", "c", "x">>,
      <<"a", ".", "e", "x", "e">>,
      <<"a", ".", "p", "d", "f", ".", "e", "x", "e">>,
      <<".", "p", "d", "f">>,
      <<"a", "p", "d", "f">>,
      <<"a", ".", "p", "d", "f", "x">>,
      <<"a", ".", "p", "d", "f", " ">>,
      <<"a", "?", ".", "T", "X", "T">>,
      << >> }

TransferFailures == {TransferPermissionError, TransferOSError, TransferException}

\* C18: while the upload form of a user is on the await-document step, a
\* document whose transfer fails (the write is refused, the write fails, or
\* anything else goes wrong) leaves the form on that step and every other
\* form as it is, is answered, sets no upload data (the user has none) and
\* adds no file row.
C18_FailedTransferKeepsStep ==
    \A u \in Senders :
        conversations["upload_conv"][u] = AWAITING_FILE =>
            \A file_name \in DocumentNames, io \in TransferFailures :
                \A r \in {process_update(BotState, DocumentUpdate(u, file_name, io))} :
                    /\ r.callback = "receive_file"
                    /\ r.out.exc = "none"
                    /\ r.out.reply \in {"receive_file: format", "receive_file: not written",
                                        "receive_file: unexpected"}
                    /\ r.st.conversations = conversations
                    /\ r.st.user_data = user_data
                    /\ r.st.user_data[u] = NoUserData
                    /\ r.st.files = files
                    /\ r.st.seq = sqlite_sequence

\* a write failed after the file was created; the form awaits the document
C18_Witness ==
    /\ last.op = "receive_file"
    /\ last.out.reply = "receive_file: not written"
    /\ conversations["upload_conv"][last.user] = AWAITING_FILE
    /\ user_data[last.user] = NoUserData
    /\ storage # {}
    /\ users # {}

\* s ends with ext, case ignored
EndsWithIgnoringCase(s, ext) ==
    /\ Len(s) >= Len(ext)
    /\ SameWord(SubSeq(s, Len(s) - Len(ext) + 1, Len(s)), ext)

\* the file name has one of the six extensions, case ignored: it ends with
\* the extension, and a name stands before the extension
HasAllowedExtension(file_name) ==
    \E ext \in allowed_ext :
        /\ EndsWithIgnoringCase(file_name, ext)
        /\ \E k \in 1..(Len(file_name) - Len(ext)) : file_name[k] # "."

\* C19: while the upload form of a user is on the await-document step, a
\* document whose name has none of the six extensions (case ignored) leaves
\* the storage, the tables, the upload data and the step as they are,
\* whatever the transfer would do; a document with one of the extensions
\* whose write succeeds is in the storage afterwards and moves the form to
\* the await-tags step.  The path of every file row has one of the
\* extensions.
C19_OnlyAllowedExtensions ==
    /\ \A u \in Senders :
          conversations["upload_conv"][u] = AWAITING_FILE =>
              \A file_name \in DocumentNames, io \in TransferFailures \cup {TransferOk} :
                  \A r \in {process_update(BotState, DocumentUpdate(u, file_name, io))} :
                      /\ ~HasAllowedExtension(file_name) =>
                            /\ r.st.storage = storage
                            /\ r.st.files = files
                            /\ r.st.user_data = user_data
                            /\ r.st.conversations = conversations
                            /\ r.out.reply = "receive_file: format"
                      /\ (HasAllowedExtension(file_name) /\ io = TransferOk) =>
                            /\ r.st.conversations["upload_conv"][u] = AWAITING_TAGS
                            /\ r.st.user_data[u].uploading_file_path # << >>
                            /\ r.st.user_data[u].uploading_file_path[1] \in r.st.storage
                            /\ r.st.files = files
    /\ \A f \in files : HasAllowedExtension(f.file_path)
    /\ \A path \in storage : HasAllowedExtension(path)

\* the document "a.PDF" was written and the form awaits the tags
C19_Witness ==
    /\ last.op = "receive_file"
    /\ last.out.reply = "receive_file: enter tags"
    /\ conversations["upload_conv"][last.user] = AWAITING_TAGS
    /\ user_data[last.user].uploading_file_path[1] \in storage
    /\ files # {}

\* the texts tried as replies of the rate form: "1 5", "1 1", "2 3", "1 6",
\* "1 0", "0 5", "-1 5", "9 5", "1", "1 2 3", "a 5", "1 a", " 1  5 ", "+1 5",
\* "1,5", " "
RatingTexts ==
    { <<"1", " ", "5">>,
      <<"1", " ", "1">>,
      <<"2", " ", "3">>,
      <<"1", " ", "6">>,
      <<"1", " ", "0">>,
      <<"0", " ", "5">>,
      <<"-", "1", " ", "5">>,
      <<"9", " ", "5">>,
      <<"1">>,
      <<"1", " ", "2", " ", "3">>,
      <<"a", " ", "5">>,
      <<"1", " ", "a">>,
      <<" ", "1", " ", " ", "5", " ">>,
      <<"+", "1", " ", "5">>,
      <<"1", ",", "5">>,
      <<" ">> }

\* a word that writes an integer: digits, after one sign or none
IsInteger(word) ==
    LET body == IF word # << >> /\ word[1] \in {"+", "-"} THEN Tail(word) ELSE word
    IN  body # << >> /\ \A i \in 1..Len(body) : IsDigit(body[i])

\* the integer a word writes
IntegerOf(word) ==
    IF word[1] = "-" THEN 0 - digits_value(Tail(word))
    ELSE IF word[1] = "+" THEN digits_value(Tail(word))
    ELSE digits_value(word)

\* the words of a text, in order: its maximal runs of characters other than
\* whitespace, taken from the left
RECURSIVE WordsInOrder(_)
WordsInOrder(s) ==
    IF \A i \in 1..Len(s) : s[i] \in Whitespace THEN << >>
    ELSE LET a == CHOOSE i \in 1..Len(s) :
                      s[i] \notin Whitespace /\ \A j \in 1..(i - 1) : s[j] \in Whitespace
             b == CHOOSE i \in a..Len(s) :
                      /\ \A j \in a..i : s[j] \notin Whitespace
                      /\ i = Len(s) \/ s[i + 1] \in Whitespace
         IN  <<SubSeq(s, a, b)>> \o WordsInOrder(SubSeq(s, b + 1, Len(s)))

\* C20 as stated: while the rate form of a user is on its step, a text of
\* the user that is no menu label changes the ratings table only if it is
\* two integers "<file id> <score>" apart by whitespace, with a score in
\* 1..5 and the id of a file row; then the row of that file and that user
\* holds the score and every other row is as before.  After every such
\* text the rate form is over.
C20_RateFormReply ==
    \A u \in Senders :
        conversations["rate_conv"][u] = AWAITING_RATING_INPUT =>
            \A text \in RatingTexts :
                \A r \in {process_update(BotState, TextUpdate(u, text))} :
                    LET words == WordsInOrder(text)
                        wellFormed == /\ Len(words) = 2
                                      /\ IsInteger(words[1]) /\ IsInteger(words[2])
                                      /\ IntegerOf(words[2]) \in 1..5
                                      /\ \E f \in files : f.file_id = IntegerOf(words[1])
                        mine(x) == x.file_id = IntegerOf(words[1]) /\ x.user_id = u
                    IN  /\ wellFormed =>
                              /\ {x \in r.st.ratings : mine(x)} =
                                    {[file_id |-> IntegerOf(words[1]), user_id |-> u,
                                      rating |-> IntegerOf(words[2])]}
                              /\ {x \in r.st.ratings : ~mine(x)} = {x \in ratings : ~mine(x)}
                        /\ ~wellFormed => r.st.ratings = ratings
                        /\ r.st.conversations["rate_conv"][u] = END

\* the texts tried as replies of the download form: "1", "2", "0", "-1", "a",
\* " ", "1 5", " 1 ", "+1", "1.0"
DownloadTexts ==
    { <<"1">>,
      <<"2">>,
      <<"0">>,
      <<"-", "1">>,
      <<"a">>,
      <<" ">>,
      <<"1", " ", "5">>,
      <<" ", "1", " ">>,
      <<"+", "1">>,
      <<"1", ".", "0">> }

\* C21 as stated: while the download form of a user is on its step, a text
\* of the user that is no menu label is answered with a document only if it
\* is one positive integer, the id of a file row whose path is in the
\* storage, and the document is the one at that path; every other text is
\* answered with the not-found or the invalid-id message and no document.
\* After every such text the download form is over and the tables are as
\* before.
C21_DownloadFormReply ==
    \A u \in Senders :
        conversations["download_conv"][u] = AWAITING_FILE_ID_FOR_DOWNLOAD =>
            \A text \in DownloadTexts :
                \A r \in {process_update(BotState, TextUpdate(u, text))} :
                    LET words == WordsInOrder(text)
                        isId  == /\ Len(words) = 1
                                 /\ IsInteger(words[1])
                                 /\ IntegerOf(words[1]) > 0
                        blobs == IF isId
                                 THEN {f.file_path : f \in {x \in files :
                                           /\ x.file_id = IntegerOf(words[1])
                                           /\ x.file_path \in storage}}
                                 ELSE {}
                    IN  /\ r.out.sent # << >> => r.out.sent[1] \in blobs
                        /\ blobs = {} =>
                              /\ r.out.sent = << >>
                              /\ r.out.reply \in {"receive_file_id_for_download: not found",
                                                  "receive_file_id_for_download: invalid id"}
                        /\ r.st.conversations["download_conv"][u] = END
                        /\ r.st.users = users /\ r.st.files = files
                        /\ r.st.ratings = ratings /\ r.st.seq = sqlite_sequence

(***************************************************************************)
(* Properties of clean_filename (specification SpecFilename).              *)
(***************************************************************************)
\* the characters of s other than whitespace, in order
NonWhitespace(s) ==
    LET NotSpace(c) == c \notin Whitespace IN SelectSeq(s, NotSpace)

\* the characters clean_filename is to keep: letters, digits, the
\* underscore, whitespace, "." and "-"
AllowedCharacters ==
    Range(UpperLetters) \cup Range(LowerLetters) \cup Range(DigitChars) \cup Whitespace
        \cup {"_", ".", "-"}

\* the characters of s that are allowed, in order
AllowedOf(s) ==
    LET Allowed(c) == c \in AllowedCharacters IN SelectSeq(s, Allowed)

PlaceholderName == <<"u", "n", "n", "a", "m", "e", "d", "_", "f", "i", "l", "e">>

EndsWith(s, e) == Len(s) >= Len(e) /\ SubSeq(s, Len(s) - Len(e) + 1, Len(s)) = e

\* C23 as stated: the name clean_filename returns has at most 100
\* characters; when the name was cut (what is left of it after the removal
\* of characters and the collapse of whitespace is longer than 100
\* characters) the name returned ends with the extension of what was left.
C23_AtMostHundred ==
    last.op = "clean_filename" =>
        LET kept == strip(collapse_whitespace(AllowedOf(last.filename)))
        IN  /\ Len(last.ret) <= MaxFilenameLen
            /\ Len(kept) > MaxFilenameLen => EndsWith(last.ret, splitext(kept)[2])

(***************************************************************************)
(* More properties of the dialogue (specification SpecDialogue).           *)
(***************************************************************************)
\* C24: in every state, a user whose upload form is not on the await-tags
\* step (it is idle or awaits the document) has no upload data: no path, no
\* name, no uploader id; and a user has the three of them or none.
C24_UploadDataOnlyOnTagsStep ==
    \A u \in TelegramUsers :
        /\ conversations["upload_conv"][u] # AWAITING_TAGS => user_data[u] = NoUserData
        /\ user_data[u] # NoUserData =>
              /\ user_data[u].uploading_file_path # << >>
              /\ user_data[u].uploading_original_name # << >>
              /\ user_data[u].uploader_user_id = <<u>>

\* the tags step has made a file row of the upload data and the data is gone
C24_Witness ==
    /\ last.op = "receive_tags"
    /\ last.out.reply = "receive_tags: saved"
    /\ conversations["upload_conv"][last.user] = END
    /\ user_data[last.user] = NoUserData
    /\ files # {}

(***************************************************************************)
(* More properties of the store (specification Spec).                      *)
(***************************************************************************)
\* C25: after any sequence of calls of the store, the owner of every file
\* row is the id of a users row, the file of every ratings row is the id of
\* a files row, and the score of every ratings row is an integer from 1 to 5.
C25_RowsResolve ==
    /\ \A f \in files : \E u \in users : u.user_id = f.user_id
    /\ \A r \in ratings :
          /\ \E f \in files : f.file_id = r.file_id
          /\ r.rating \in Int
          /\ MinRating <= r.rating /\ r.rating <= MaxRating

\* a rating was stored for a file of a user, after calls that were refused
C25_Witness ==
    /\ last.op = "rate_file"
    /\ last.out = Return(TRUE)
    /\ files # {}
    /\ ratings # {}
    /\ \E f \in files : \E r \in ratings : \E u \in users :
          r.file_id = f.file_id /\ u.user_id = f.user_id

(***************************************************************************)
(* Errors in the steps of the dialogue (specification SpecDialogue).       *)
(***************************************************************************)
\* the handlers of the steps: name, document, tags, search query, rating
\* input, download id, profile
StepHandlers ==
    {"receive_name", "receive_file", "receive_tags", "receive_search_query",
     "receive_rating_input", "receive_file_id_for_download", "show_profile"}

\* C26 as stated: whatever the store and the storage do in it, a step of the
\* dialogue lets no exception escape and answers the user.
C26_NoErrorEscapes ==
    last.op \in StepHandlers =>
        /\ last.out.exc = "none"
        /\ last.out.reply # ""

(***************************************************************************)
(* The file rows under calls of the store and steps of the dialogue        *)
(* (specification SpecRecords).                                            *)
(***************************************************************************)
\* C27: no call of the store and no step of the dialogue removes a file row
\* or changes its owner, path, tags or name: every row of the files table is
\* in the table, as it is, after the step.
C27_FileRowsStay ==
    [][\A f \in files : f \in files']_vars

\* the owner of two file rows, one made by add_file and one by the tags
\* step, has set the name again, and a file is rated
C27_Witness ==
    /\ last.op \in {"add_user", "receive_name"}
    /\ \E f, g \in files :
          /\ f.file_path = <<"p">>
          /\ g.file_path # <<"p">>
          /\ \E u \in users : u.user_id = f.user_id /\ u.user_id = g.user_id
    /\ ratings # {}

(***************************************************************************)
(* The forms of one user (specification SpecDialogue).                     *)
(***************************************************************************)
\* C28 as stated: in every state reached by labels, texts, /start and
\* documents of a user, at most one of the five forms of the user is on a
\* step.
C28_OneActiveForm ==
    \A u \in TelegramUsers : Cardinality(ActiveForms(conversations, u)) <= 1

(***************************************************************************)
(* Two users (specification SpecTwoUsers).                                 *)
(***************************************************************************)
\* the steps of the forms of user u
StepsOf(convs, u) == [h \in ConversationNames |-> convs[h][u]]

\* C29: a step that handles an update of one user leaves the steps of the
\* forms and the upload data of every other user as they are; the file row
\* that the tags step of a user adds has this user as owner and the path and
\* the name of the document this user sent; and every file row has the path
\* and name of the document of its owner.
C29_DialoguePerUser ==
    /\ [][\A u \in TelegramUsers :
             /\ u # last'.user =>
                   /\ StepsOf(conversations', u) = StepsOf(conversations, u)
                   /\ user_data'[u] = user_data[u]
             /\ (u = last'.user /\ last'.op = "receive_tags" /\ files' # files) =>
                   \E id \in 1..MaxRows :
                       files' = files \cup
                           {[file_id       |-> id,
                             user_id       |-> u,
                             file_path     |-> upload_path(u, clean_filename(DocumentOf(u)), 7,
                                                           splitext(DocumentOf(u))[2]),
                             tags          |-> <<"1">>,
                             original_name |-> clean_filename(DocumentOf(u))]}]_vars
    /\ [](\A f \in files :
             /\ f.original_name = clean_filename(DocumentOf(f.user_id))
             /\ f.file_path = upload_path(f.user_id, f.original_name, 7,
                                          splitext(DocumentOf(f.user_id))[2]))

\* each of the two users has a file row, and the tags of the one were sent
\* while the other was on a step of the upload form
C29_Witness ==
    /\ last.op = "receive_tags"
    /\ last.out.reply = "receive_tags: saved"
    /\ \A u \in TelegramUsers : \E f \in files : f.user_id = u
    /\ \E u \in TelegramUsers :
          /\ u # last.user
          /\ conversations["upload_conv"][u] = AWAITING_TAGS
          /\ user_data[u] # NoUserData

(***************************************************************************)
(* The paths of the uploads (specification SpecDialogue, whose clock       *)
(* stands still: every upload is made within the same second).             *)
(***************************************************************************)
\* C30 as stated: no two file rows have the same path.
C30_DistinctPaths ==
    \A f, g \in files : f.file_path = g.file_path => f.file_id = g.file_id

(***************************************************************************)
(* A name set again (specification Spec).                                  *)
(***************************************************************************)
\* the ids of the files in a list of results
IdsOf(results) == {results[i].file_id : i \in 1..Len(results)}

\* C31: add_user that succeeds on the id of a users row changes the name of
\* that row and nothing else in the users table; the files of the user are
\* listed by get_user_files as before; search_files finds the same files
\* after it as before it, with the new name as author of the files of the
\* user and the authors of the other files as before.  The step of add_user
\* leaves the files table, its counter and the ratings table as they are.
C31_RenameKeepsFiles ==
    /\ [](\A u \in users : \A name \in StoreInputs.names :
             \A r \in {add_user(users, u.user_id, name, DbOk)} :
                 r.out = Return(TRUE) =>
                     /\ r.users = (users \ {u}) \cup
                                      {[user_id |-> u.user_id, name |-> strip(name)]}
                     /\ IdsOf(get_user_files(files, ratings, u.user_id, DbOk).ret[1])
                            = {f.file_id : f \in {x \in files : x.user_id = u.user_id}}
                     /\ \A query \in {q \in StoreInputs.queries : strip(q) # << >>} :
                            \A before \in {search_files(users, files, ratings, query, DbOk).ret[1]},
                               after \in {search_files(r.users, files, ratings, query, DbOk).ret[1]} :
                                /\ Len(after) = Len(before)
                                /\ \A i \in 1..Len(after) :
                                      /\ after[i].file_id = before[i].file_id
                                      /\ after[i].rating = before[i].rating
                                      /\ \E f \in files :
                                            /\ f.file_id = after[i].file_id
                                            /\ after[i].author_name =
                                                  IF f.user_id = u.user_id THEN strip(name)
                                                  ELSE before[i].author_name)
    /\ [][last'.op = "add_user" =>
              /\ files' = files
              /\ ratings' = ratings
              /\ sqlite_sequence' = sqlite_sequence]_vars

\* the only user has a rated file and has just set the name again
C31_Witness ==
    /\ last.op = "add_user"
    /\ last.out = Return(TRUE)
    /\ Cardinality(users) = 1
    /\ \E u \in users : \E f \in files : \E r \in ratings :
          /\ f.user_id = u.user_id
          /\ r.file_id = f.file_id
          /\ u.name = <<"b">>
          /\ search_files(users, files, ratings, <<"a">>, DbOk).ret[1] # << >>

(***************************************************************************)
(* The order of an upload (specification SpecDialogue).                    *)
(***************************************************************************)
\* C32: a step of the dialogue that changes the files table is the tags step
\* of a user whose upload form was on the await-tags step; it adds one row,
\* owned by this user, whose path is the path kept for the user by the
\* document step and is a file in the storage.  The document step adds no
\* row.  A tags reply without upload data ends the form with the error
\* reply and adds no row.  The path of every file row is in the storage.
C32_UploadOrder ==
    /\ [][files' # files =>
              /\ last'.op = "receive_tags"
              /\ conversations["upload_conv"][last'.user] = AWAITING_TAGS
              /\ user_data[last'.user].uploader_user_id = <<last'.user>>
              /\ user_data[last'.user].uploading_file_path # << >>
              /\ user_data[last'.user].uploading_file_path[1] \in storage
              /\ \E id \in 1..MaxRows, text \in FirstUserInputs.texts :
                    /\ \A f \in files : f.file_id < id
                    /\ files' = files \cup
                          {[file_id       |-> id,
                            user_id       |-> last'.user,
                            file_path     |-> user_data[last'.user].uploading_file_path[1],
                            tags          |-> strip(text),
                            original_name |->
                                user_data[last'.user].uploading_original_name[1]]}]_vars
    /\ [][last'.op = "receive_file" => files' = files]_vars
    /\ [](\A f \in files : f.file_path \in storage)
    /\ [](\A u \in Senders :
             \A r \in {receive_tags([world(BotState, TextUpdate(u, <<"1">>))
                                        EXCEPT !.data = NoUserData],
                                    TextUpdate(u, <<"1">>))} :
                 /\ r.reply = "receive_tags: data lost"
                 /\ r.state = <<END>>
                 /\ r.w.files = files
                 /\ r.w.seq = sqlite_sequence)

\* the tags step has added the row of a document written before
C32_Witness ==
    /\ last.op = "receive_tags"
    /\ last.out.reply = "receive_tags: saved"
    /\ \E f \in files : f.user_id = last.user /\ f.file_path \in storage
    /\ conversations["upload_conv"][last.user] = END
    /\ storage # {}

(***************************************************************************)
(* A user who answers every step as asked: a label is pressed only while   *)
(* no form of the user is on a step, the await-document step gets an       *)
(* allowed document that is written, every other step a text that is       *)
(* neither blank nor a label.  The user goes on answering (weak fairness). *)
(* A form is started only while the tables have room for the row it may    *)
(* add.                                                                    *)
(***************************************************************************)
\* the labels of the five forms
FormLabels == {LabelSetName, LabelUpload, LabelSearch, LabelRate, LabelDownload}

\* the texts of the user: "1 5", "1"
WellFormedTexts == { <<"1", " ", "5">>, <<"1">> }

WellFormedUpdates ==
    UNION {IF ActiveForms(conversations, u) = {}
           THEN IF TotalRows < MaxRows
                THEN {TextUpdate(u, label) : label \in FormLabels}
                ELSE {}
           ELSE IF conversations["upload_conv"][u] = AWAITING_FILE
                THEN {DocumentUpdate(u, <<"a", ".", "P", "D", "F">>, TransferOk)}
                ELSE {TextUpdate(u, text) : text \in WellFormedTexts} : u \in Senders}

NextWellFormed ==
    \/ AskForName(WellFormedUpdates)
    \/ ReceiveName(WellFormedUpdates)
    \/ AskForFile(WellFormedUpdates)
    \/ ReceiveFile(WellFormedUpdates)
    \/ ReceiveTags(WellFormedUpdates)
    \/ AskForSearch(WellFormedUpdates)
    \/ ReceiveSearchQuery(WellFormedUpdates)
    \/ AskForRating(WellFormedUpdates)
    \/ ReceiveRatingInput(WellFormedUpdates)
    \/ AskForDownload(WellFormedUpdates)
    \/ ReceiveFileIdForDownload(WellFormedUpdates)

SpecWellFormed == Init /\ [][NextWellFormed]_vars /\ WF_vars(NextWellFormed)

\* C33 as stated: a form of a user that is on a step is over at some later
\* time, when the user goes on answering every step as asked.
C33_FormsEnd ==
    \A u \in Senders : \A h \in ConversationNames :
        (conversations[h][u] # END) ~> (conversations[h][u] = END)
====
